---- MODULE Spec2Model ----
(***************************************************************************)
(* A model of the WhatsApp sales bot: the round-robin router (router.js),  *)
(* the SQLite storage module (db.js) and the inbound-message handler of    *)
(* index.js (the first bot version of the file, lines 1-1416).             *)
(***************************************************************************)
EXTENDS Integers, Sequences, FiniteSets, TLC

\* ------------------------------------------------------------------ bounds
MaxEmployees == 3
MaxClients == 4
MaxRows == 4
\* the message handlers that may be suspended at the same time
MaxInFlight == 2
\* the messages delivered in a run of SpecMsg
MaxMsgs == 2
\* the user+assistant exchanges already stored when a run of SpecMsg starts
MaxPairs == 3
\* the messages delivered, and the clock advances, in a run of SpecLoop
MaxLoopMsgs == 12
MaxTicks == 3
MaxBotMsgs == 1
MaxHandoffMsgs == 3
MaxStartCount == 1
MaxInboxMsgs == 2
MaxRetryMsgs == 2

\* employees.id is an AUTOINCREMENT key: the employees are 1..MaxEmployees
EmployeeIds == 1..MaxEmployees
\* the mobile lines of the clients, as the keys the router and the tables use
ClientPhones == 1..MaxClients

VARIABLES
  lastAssignedIndex,  \* router.js: the rotation cursor
  employees,          \* table employees: id -> [is_active, assignments_count]
  assignments,        \* table assignments, in insertion order
  clients,            \* table clients: phone -> status, "none" when no row
  conversations,      \* table conversations: phone -> roles of the saved rows
  returned,           \* the last direct assignClient call: its client and the row it returned
  recovered,          \* the last start-up: the rows there were, the agent due next before it
  handlers,           \* the message handlers in flight, with their local variables
  done,               \* the handler that ended last, as it ended
  tracker,            \* global._msgTracker: sender -> timestamps
  now,                \* Date.now()
  arrivals,           \* per sender, when each message met the filters and whether it was tracked
  received,           \* the number of messages delivered
  catalogo,           \* search.js: the in-memory catalog
  source,             \* the catalog file
  lastLoad,           \* the last loadCatalog call: the catalog before it, whether it failed
  found,              \* the last searchProducts call: its arguments, the catalog it read, its result
  kw                  \* an extractKeywords call and the call on its joined output

dbVars == <<lastAssignedIndex, employees, assignments, clients, conversations>>
msgVars == <<handlers, done, tracker, now, arrivals, received>>
searchVars == <<catalogo, source, lastLoad, found, kw>>
vars == <<lastAssignedIndex, employees, assignments, clients, conversations, returned, recovered,
          handlers, done, tracker, now, arrivals, received,
          catalogo, source, lastLoad, found, kw>>

\* ------------------------------------------------------- strings (index.js)
\* A JavaScript string is the sequence of its characters.  A string literal of
\* the source is written here in ASCII (a' e' i' o' u' n~ for the accented
\* letters, <? and <! for the inverted marks) and Chars gives its characters.

Digit == {"0", "1", "2", "3", "4", "5", "6", "7", "8", "9"}

LowerOf ==
  ("A" :> "a") @@ ("B" :> "b") @@ ("C" :> "c") @@ ("D" :> "d") @@ ("E" :> "e") @@
  ("F" :> "f") @@ ("G" :> "g") @@ ("H" :> "h") @@ ("I" :> "i") @@ ("J" :> "j") @@
  ("K" :> "k") @@ ("L" :> "l") @@ ("M" :> "m") @@ ("N" :> "n") @@ ("O" :> "o") @@
  ("P" :> "p") @@ ("Q" :> "q") @@ ("R" :> "r") @@ ("S" :> "s") @@ ("T" :> "t") @@
  ("U" :> "u") @@ ("V" :> "v") @@ ("W" :> "w") @@ ("X" :> "x") @@ ("Y" :> "y") @@
  ("Z" :> "z") @@ ("A'" :> "a'") @@ ("E'" :> "e'") @@ ("I'" :> "i'") @@
  ("O'" :> "o'") @@ ("U'" :> "u'") @@ ("N~" :> "n~")

\* String.prototype.toLowerCase
toLowerCase(t) ==
  [i \in 1..Len(t) |-> IF t[i] \in DOMAIN LowerOf THEN LowerOf[t[i]] ELSE t[i]]

\* canonical decomposition: the base letter, then its combining mark
Decomposition ==
  ("a'" :> <<"a", "U+0301">>) @@ ("e'" :> <<"e", "U+0301">>) @@
  ("i'" :> <<"i", "U+0301">>) @@ ("o'" :> <<"o", "U+0301">>) @@
  ("u'" :> <<"u", "U+0301">>) @@ ("n~" :> <<"n", "U+0303">>) @@
  ("A'" :> <<"A", "U+0301">>) @@ ("E'" :> <<"E", "U+0301">>) @@
  ("I'" :> <<"I", "U+0301">>) @@ ("O'" :> <<"O", "U+0301">>) @@
  ("U'" :> <<"U", "U+0301">>) @@ ("N~" :> <<"N", "U+0303">>)

\* the characters of the class [U+0300-U+036F] that Decomposition produces
CombiningMarks == {"U+0301", "U+0303"}

RECURSIVE normalizeNFD(_)
\* String.prototype.normalize('NFD')
normalizeNFD(t) ==
  IF t = <<>> THEN <<>>
  ELSE (IF Head(t) \in DOMAIN Decomposition THEN Decomposition[Head(t)] ELSE <<Head(t)>>)
       \o normalizeNFD(Tail(t))

\* replace(/[class]/g, '')
removeAll(t, class) == SelectSeq(t, LAMBDA ch : ch \notin class)

\* String.prototype.includes
includes(t, p) ==
  \E i \in 1..(Len(t) - Len(p) + 1) : SubSeq(t, i, i + Len(p) - 1) = p

\* the index of the first occurrence of p in t, 0 when there is none
indexOf(t, p) ==
  IF includes(t, p)
  THEN CHOOSE i \in 1..(Len(t) - Len(p) + 1) :
         /\ SubSeq(t, i, i + Len(p) - 1) = p
         /\ \A j \in 1..(i - 1) : SubSeq(t, j, j + Len(p) - 1) # p
  ELSE 0

\* replace(p, ''): only the first occurrence of a string pattern is replaced
replaceFirst(t, p) ==
  LET i == indexOf(t, p)
  IN IF i = 0 THEN t ELSE SubSeq(t, 1, i - 1) \o SubSeq(t, i + Len(p), Len(t))

WhiteSpace == {" ", "\t", "\n"}

RECURSIVE trimStart(_)
trimStart(t) ==
  IF t # <<>> /\ Head(t) \in WhiteSpace THEN trimStart(Tail(t)) ELSE t

RECURSIVE trimEnd(_)
trimEnd(t) ==
  IF t # <<>> /\ t[Len(t)] \in WhiteSpace THEN trimEnd(SubSeq(t, 1, Len(t) - 1)) ELSE t

\* String.prototype.trim
trim(t) == trimEnd(trimStart(t))

\* a pattern part (a run of character classes) matches t at position i
partAt(part, t, i) ==
  /\ i + Len(part) - 1 <= Len(t)
  /\ \A k \in 1..Len(part) : t[i + k - 1] \in part[k]

RECURSIVE matchFrom(_, _, _, _)
\* the parts from the k-th on match in order, separated by .*, from position pos
matchFrom(parts, k, t, pos) ==
  IF k > Len(parts) THEN TRUE
  ELSE \E i \in pos..(Len(t) - Len(parts[k]) + 1) :
         partAt(parts[k], t, i) /\ matchFrom(parts, k + 1, t, i + Len(parts[k]))

\* RegExp.prototype.test of a /.../i pattern: its parts are in lower case
test(parts, t) == matchFrom(parts, 1, toLowerCase(t), 1)

Chars ==
  ("" :> <<>>) @@
  ("   " :> <<" ", " ", " ">>) @@
  ("!stats" :> <<"!", "s", "t", "a", "t", "s">>) @@
  ("!close 573001112231" :> <<"!", "c", "l", "o", "s", "e", " ", "5", "7", "3", "0", "0", "1", "1", "1", "2", "2", "3", "1">>) @@
  ("!reset 573001112231" :> <<"!", "r", "e", "s", "e", "t", " ", "5", "7", "3", "0", "0", "1", "1", "1", "2", "2", "3", "1">>) @@
  ("!reset " :> <<"!", "r", "e", "s", "e", "t", " ">>) @@
  ("!close " :> <<"!", "c", "l", "o", "s", "e", " ">>) @@
  ("!cerrar " :> <<"!", "c", "e", "r", "r", "a", "r", " ">>) @@
  ("5731055500" :> <<"5", "7", "3", "1", "0", "5", "5", "5", "0", "0">>) @@
  ("quiero comprar" :> <<"q", "u", "i", "e", "r", "o", " ", "c", "o", "m", "p", "r", "a", "r">>) @@
  ("quiero comprarlo" :> <<"q", "u", "i", "e", "r", "o", " ", "c", "o", "m", "p", "r", "a", "r", "l", "o">>) @@
  ("quiero comprarla" :> <<"q", "u", "i", "e", "r", "o", " ", "c", "o", "m", "p", "r", "a", "r", "l", "a">>) @@
  ("lo quiero" :> <<"l", "o", " ", "q", "u", "i", "e", "r", "o">>) @@
  ("la quiero" :> <<"l", "a", " ", "q", "u", "i", "e", "r", "o">>) @@
  ("me lo llevo" :> <<"m", "e", " ", "l", "o", " ", "l", "l", "e", "v", "o">>) @@
  ("me la llevo" :> <<"m", "e", " ", "l", "a", " ", "l", "l", "e", "v", "o">>) @@
  ("lo llevo" :> <<"l", "o", " ", "l", "l", "e", "v", "o">>) @@
  ("quiero hacer un pedido" :> <<"q", "u", "i", "e", "r", "o", " ", "h", "a", "c", "e", "r", " ", "u", "n", " ", "p", "e", "d", "i", "d", "o">>) @@
  ("hacer pedido" :> <<"h", "a", "c", "e", "r", " ", "p", "e", "d", "i", "d", "o">>) @@
  ("quiero ordenar" :> <<"q", "u", "i", "e", "r", "o", " ", "o", "r", "d", "e", "n", "a", "r">>) @@
  ("me interesa comprar" :> <<"m", "e", " ", "i", "n", "t", "e", "r", "e", "s", "a", " ", "c", "o", "m", "p", "r", "a", "r">>) @@
  ("listo para comprar" :> <<"l", "i", "s", "t", "o", " ", "p", "a", "r", "a", " ", "c", "o", "m", "p", "r", "a", "r">>) @@
  ("listo para pagar" :> <<"l", "i", "s", "t", "o", " ", "p", "a", "r", "a", " ", "p", "a", "g", "a", "r">>) @@
  ("quiero pagar" :> <<"q", "u", "i", "e", "r", "o", " ", "p", "a", "g", "a", "r">>) @@
  ("ya quiero pagar" :> <<"y", "a", " ", "q", "u", "i", "e", "r", "o", " ", "p", "a", "g", "a", "r">>) @@
  ("como pago" :> <<"c", "o", "m", "o", " ", "p", "a", "g", "o">>) @@
  ("donde pago" :> <<"d", "o", "n", "d", "e", " ", "p", "a", "g", "o">>) @@
  ("quiero el plan" :> <<"q", "u", "i", "e", "r", "o", " ", "e", "l", " ", "p", "l", "a", "n">>) @@
  ("quiero afiliarme" :> <<"q", "u", "i", "e", "r", "o", " ", "a", "f", "i", "l", "i", "a", "r", "m", "e">>) @@
  ("quiero inscribirme" :> <<"q", "u", "i", "e", "r", "o", " ", "i", "n", "s", "c", "r", "i", "b", "i", "r", "m", "e">>) @@
  ("tomenme los datos" :> <<"t", "o", "m", "e", "n", "m", "e", " ", "l", "o", "s", " ", "d", "a", "t", "o", "s">>) @@
  ("tomen mis datos" :> <<"t", "o", "m", "e", "n", " ", "m", "i", "s", " ", "d", "a", "t", "o", "s">>) @@
  ("tome mis datos" :> <<"t", "o", "m", "e", " ", "m", "i", "s", " ", "d", "a", "t", "o", "s">>) @@
  ("ya me decidi" :> <<"y", "a", " ", "m", "e", " ", "d", "e", "c", "i", "d", "i">>) @@
  ("ya me decidi'" :> <<"y", "a", " ", "m", "e", " ", "d", "e", "c", "i", "d", "i'">>) @@
  ("va listo" :> <<"v", "a", " ", "l", "i", "s", "t", "o">>) @@
  ("dale listo" :> <<"d", "a", "l", "e", " ", "l", "i", "s", "t", "o">>) @@
  ("hagamosle" :> <<"h", "a", "g", "a", "m", "o", "s", "l", "e">>) @@
  ("hagamole" :> <<"h", "a", "g", "a", "m", "o", "l", "e">>) @@
  ("vamos con eso" :> <<"v", "a", "m", "o", "s", " ", "c", "o", "n", " ", "e", "s", "o">>) @@
  ("cerremos" :> <<"c", "e", "r", "r", "e", "m", "o", "s">>) @@
  ("separamelo" :> <<"s", "e", "p", "a", "r", "a", "m", "e", "l", "o">>) @@
  ("separamela" :> <<"s", "e", "p", "a", "r", "a", "m", "e", "l", "a">>) @@
  ("apartamelo" :> <<"a", "p", "a", "r", "t", "a", "m", "e", "l", "o">>) @@
  ("apartamela" :> <<"a", "p", "a", "r", "t", "a", "m", "e", "l", "a">>) @@
  ("hablar con alguien" :> <<"h", "a", "b", "l", "a", "r", " ", "c", "o", "n", " ", "a", "l", "g", "u", "i", "e", "n">>) @@
  ("hablar con humano" :> <<"h", "a", "b", "l", "a", "r", " ", "c", "o", "n", " ", "h", "u", "m", "a", "n", "o">>) @@
  ("hablar con persona" :> <<"h", "a", "b", "l", "a", "r", " ", "c", "o", "n", " ", "p", "e", "r", "s", "o", "n", "a">>) @@
  ("hablar con asesor" :> <<"h", "a", "b", "l", "a", "r", " ", "c", "o", "n", " ", "a", "s", "e", "s", "o", "r">>) @@
  ("hablar con vendedor" :> <<"h", "a", "b", "l", "a", "r", " ", "c", "o", "n", " ", "v", "e", "n", "d", "e", "d", "o", "r">>) @@
  ("hablar con agente" :> <<"h", "a", "b", "l", "a", "r", " ", "c", "o", "n", " ", "a", "g", "e", "n", "t", "e">>) @@
  ("hablar con un asesor" :> <<"h", "a", "b", "l", "a", "r", " ", "c", "o", "n", " ", "u", "n", " ", "a", "s", "e", "s", "o", "r">>) @@
  ("hablar con un humano" :> <<"h", "a", "b", "l", "a", "r", " ", "c", "o", "n", " ", "u", "n", " ", "h", "u", "m", "a", "n", "o">>) @@
  ("hablar con un vendedor" :> <<"h", "a", "b", "l", "a", "r", " ", "c", "o", "n", " ", "u", "n", " ", "v", "e", "n", "d", "e", "d", "o", "r">>) @@
  ("quiero un asesor" :> <<"q", "u", "i", "e", "r", "o", " ", "u", "n", " ", "a", "s", "e", "s", "o", "r">>) @@
  ("quiero un humano" :> <<"q", "u", "i", "e", "r", "o", " ", "u", "n", " ", "h", "u", "m", "a", "n", "o">>) @@
  ("quiero una persona" :> <<"q", "u", "i", "e", "r", "o", " ", "u", "n", "a", " ", "p", "e", "r", "s", "o", "n", "a">>) @@
  ("pasar con alguien" :> <<"p", "a", "s", "a", "r", " ", "c", "o", "n", " ", "a", "l", "g", "u", "i", "e", "n">>) @@
  ("pasar con humano" :> <<"p", "a", "s", "a", "r", " ", "c", "o", "n", " ", "h", "u", "m", "a", "n", "o">>) @@
  ("pasar con asesor" :> <<"p", "a", "s", "a", "r", " ", "c", "o", "n", " ", "a", "s", "e", "s", "o", "r">>) @@
  ("pasame con" :> <<"p", "a", "s", "a", "m", "e", " ", "c", "o", "n">>) @@
  ("pasame a" :> <<"p", "a", "s", "a", "m", "e", " ", "a">>) @@
  ("redirigeme" :> <<"r", "e", "d", "i", "r", "i", "g", "e", "m", "e">>) @@
  ("redirigime" :> <<"r", "e", "d", "i", "r", "i", "g", "i", "m", "e">>) @@
  ("redirigame" :> <<"r", "e", "d", "i", "r", "i", "g", "a", "m", "e">>) @@
  ("redirige" :> <<"r", "e", "d", "i", "r", "i", "g", "e">>) @@
  ("rediriga" :> <<"r", "e", "d", "i", "r", "i", "g", "a">>) @@
  ("transfiereme" :> <<"t", "r", "a", "n", "s", "f", "i", "e", "r", "e", "m", "e">>) @@
  ("transferir" :> <<"t", "r", "a", "n", "s", "f", "e", "r", "i", "r">>) @@
  ("transferirme" :> <<"t", "r", "a", "n", "s", "f", "e", "r", "i", "r", "m", "e">>) @@
  ("transfiera" :> <<"t", "r", "a", "n", "s", "f", "i", "e", "r", "a">>) @@
  ("comunicame" :> <<"c", "o", "m", "u", "n", "i", "c", "a", "m", "e">>) @@
  ("conectame" :> <<"c", "o", "n", "e", "c", "t", "a", "m", "e">>) @@
  ("conecteme" :> <<"c", "o", "n", "e", "c", "t", "e", "m", "e">>) @@
  ("necesito ayuda personalizada" :> <<"n", "e", "c", "e", "s", "i", "t", "o", " ", "a", "y", "u", "d", "a", " ", "p", "e", "r", "s", "o", "n", "a", "l", "i", "z", "a", "d", "a">>) @@
  ("atencion humana" :> <<"a", "t", "e", "n", "c", "i", "o", "n", " ", "h", "u", "m", "a", "n", "a">>) @@
  ("no quiero bot" :> <<"n", "o", " ", "q", "u", "i", "e", "r", "o", " ", "b", "o", "t">>) @@
  ("no eres humano" :> <<"n", "o", " ", "e", "r", "e", "s", " ", "h", "u", "m", "a", "n", "o">>) @@
  ("eres robot" :> <<"e", "r", "e", "s", " ", "r", "o", "b", "o", "t">>) @@
  ("eres un bot" :> <<"e", "r", "e", "s", " ", "u", "n", " ", "b", "o", "t">>) @@
  ("agente humano" :> <<"a", "g", "e", "n", "t", "e", " ", "h", "u", "m", "a", "n", "o">>) @@
  ("persona real" :> <<"p", "e", "r", "s", "o", "n", "a", " ", "r", "e", "a", "l">>) @@
  ("quiero asesor" :> <<"q", "u", "i", "e", "r", "o", " ", "a", "s", "e", "s", "o", "r">>) @@
  ("necesito asesor" :> <<"n", "e", "c", "e", "s", "i", "t", "o", " ", "a", "s", "e", "s", "o", "r">>) @@
  ("un asesor" :> <<"u", "n", " ", "a", "s", "e", "s", "o", "r">>) @@
  ("con un humano" :> <<"c", "o", "n", " ", "u", "n", " ", "h", "u", "m", "a", "n", "o">>) @@
  ("con una persona" :> <<"c", "o", "n", " ", "u", "n", "a", " ", "p", "e", "r", "s", "o", "n", "a">>) @@
  ("con alguien real" :> <<"c", "o", "n", " ", "a", "l", "g", "u", "i", "e", "n", " ", "r", "e", "a", "l">>) @@
  ("humano por favor" :> <<"h", "u", "m", "a", "n", "o", " ", "p", "o", "r", " ", "f", "a", "v", "o", "r">>) @@
  ("asesor por favor" :> <<"a", "s", "e", "s", "o", "r", " ", "p", "o", "r", " ", "f", "a", "v", "o", "r">>) @@
  ("bancolombia" :> <<"b", "a", "n", "c", "o", "l", "o", "m", "b", "i", "a">>) @@
  ("nequi" :> <<"n", "e", "q", "u", "i">>) @@
  ("daviplata" :> <<"d", "a", "v", "i", "p", "l", "a", "t", "a">>) @@
  ("dale" :> <<"d", "a", "l", "e">>) @@
  ("rappipay" :> <<"r", "a", "p", "p", "i", "p", "a", "y">>) @@
  ("rappi" :> <<"r", "a", "p", "p", "i">>) @@
  ("movii" :> <<"m", "o", "v", "i", "i">>) @@
  ("tpaga" :> <<"t", "p", "a", "g", "a">>) @@
  ("bold" :> <<"b", "o", "l", "d">>) @@
  ("payvalida" :> <<"p", "a", "y", "v", "a", "l", "i", "d", "a">>) @@
  ("payu" :> <<"p", "a", "y", "u">>) @@
  ("epayco" :> <<"e", "p", "a", "y", "c", "o">>) @@
  ("claro" :> <<"c", "l", "a", "r", "o">>) @@
  ("movistar" :> <<"m", "o", "v", "i", "s", "t", "a", "r">>) @@
  ("tigo" :> <<"t", "i", "g", "o">>) @@
  ("wom" :> <<"w", "o", "m">>) @@
  ("etb" :> <<"e", "t", "b">>) @@
  ("une" :> <<"u", "n", "e">>) @@
  ("compensar" :> <<"c", "o", "m", "p", "e", "n", "s", "a", "r">>) @@
  ("sura" :> <<"s", "u", "r", "a">>) @@
  ("eps" :> <<"e", "p", "s">>) @@
  ("colmedica" :> <<"c", "o", "l", "m", "e", "d", "i", "c", "a">>) @@
  ("sanitas" :> <<"s", "a", "n", "i", "t", "a", "s">>) @@
  ("coomeva" :> <<"c", "o", "o", "m", "e", "v", "a">>) @@
  ("servientrega" :> <<"s", "e", "r", "v", "i", "e", "n", "t", "r", "e", "g", "a">>) @@
  ("envia" :> <<"e", "n", "v", "i", "a">>) @@
  ("interrapidisimo" :> <<"i", "n", "t", "e", "r", "r", "a", "p", "i", "d", "i", "s", "i", "m", "o">>) @@
  ("coordinadora" :> <<"c", "o", "o", "r", "d", "i", "n", "a", "d", "o", "r", "a">>) @@
  ("deprisa" :> <<"d", "e", "p", "r", "i", "s", "a">>) @@
  ("fedex" :> <<"f", "e", "d", "e", "x">>) @@
  ("uber" :> <<"u", "b", "e", "r">>) @@
  ("didi" :> <<"d", "i", "d", "i">>) @@
  ("indriver" :> <<"i", "n", "d", "r", "i", "v", "e", "r">>) @@
  ("beat" :> <<"b", "e", "a", "t">>) @@
  ("taskus" :> <<"t", "a", "s", "k", "u", "s">>) @@
  ("task us" :> <<"t", "a", "s", "k", " ", "u", "s">>) @@
  ("task_us" :> <<"t", "a", "s", "k", "_", "u", "s">>) @@
  ("google" :> <<"g", "o", "o", "g", "l", "e">>) @@
  ("whatsapp" :> <<"w", "h", "a", "t", "s", "a", "p", "p">>) @@
  ("meta" :> <<"m", "e", "t", "a">>) @@
  ("facebook" :> <<"f", "a", "c", "e", "b", "o", "o", "k">>) @@
  ("instagram" :> <<"i", "n", "s", "t", "a", "g", "r", "a", "m">>) @@
  ("telegram" :> <<"t", "e", "l", "e", "g", "r", "a", "m">>) @@
  ("chatgpt" :> <<"c", "h", "a", "t", "g", "p", "t">>) @@
  ("openai" :> <<"o", "p", "e", "n", "a", "i">>) @@
  ("gemini" :> <<"g", "e", "m", "i", "n", "i">>) @@
  ("copilot" :> <<"c", "o", "p", "i", "l", "o", "t">>) @@
  ("claude" :> <<"c", "l", "a", "u", "d", "e">>) @@
  ("bot" :> <<"b", "o", "t">>) @@
  ("verificacio'n" :> <<"v", "e", "r", "i", "f", "i", "c", "a", "c", "i", "o'", "n">>) @@
  ("verificacion" :> <<"v", "e", "r", "i", "f", "i", "c", "a", "c", "i", "o", "n">>) @@
  ("verification" :> <<"v", "e", "r", "i", "f", "i", "c", "a", "t", "i", "o", "n">>) @@
  ("security" :> <<"s", "e", "c", "u", "r", "i", "t", "y">>) @@
  ("seguridad" :> <<"s", "e", "g", "u", "r", "i", "d", "a", "d">>) @@
  ("notificacio'n" :> <<"n", "o", "t", "i", "f", "i", "c", "a", "c", "i", "o'", "n">>) @@
  ("notificacion" :> <<"n", "o", "t", "i", "f", "i", "c", "a", "c", "i", "o", "n">>) @@
  ("notification" :> <<"n", "o", "t", "i", "f", "i", "c", "a", "t", "i", "o", "n">>) @@
  ("alerta" :> <<"a", "l", "e", "r", "t", "a">>) @@
  ("alert" :> <<"a", "l", "e", "r", "t">>) @@
  ("transacci" :> <<"t", "r", "a", "n", "s", "a", "c", "c", "i">>) @@
  ("n" :> <<"n">>) @@
  ("aprobada" :> <<"a", "p", "r", "o", "b", "a", "d", "a">>) @@
  ("transferencia" :> <<"t", "r", "a", "n", "s", "f", "e", "r", "e", "n", "c", "i", "a">>) @@
  ("exitosa" :> <<"e", "x", "i", "t", "o", "s", "a">>) @@
  ("c" :> <<"c">>) @@
  ("digo de verificaci" :> <<"d", "i", "g", "o", " ", "d", "e", " ", "v", "e", "r", "i", "f", "i", "c", "a", "c", "i">>) @@
  ("digo" :> <<"d", "i", "g", "o">>) @@
  ("tu c" :> <<"t", "u", " ", "c">>) @@
  ("digo es" :> <<"d", "i", "g", "o", " ", "e", "s">>) @@
  ("your" :> <<"y", "o", "u", "r">>) @@
  ("code" :> <<"c", "o", "d", "e">>) @@
  ("is" :> <<"i", "s">>) @@
  ("otp" :> <<"o", "t", "p">>) @@
  ("saldo" :> <<"s", "a", "l", "d", "o">>) @@
  ("disponible" :> <<"d", "i", "s", "p", "o", "n", "i", "b", "l", "e">>) @@
  ("pago" :> <<"p", "a", "g", "o">>) @@
  ("recibido" :> <<"r", "e", "c", "i", "b", "i", "d", "o">>) @@
  ("factura" :> <<"f", "a", "c", "t", "u", "r", "a">>) @@
  ("generada" :> <<"g", "e", "n", "e", "r", "a", "d", "a">>) @@
  ("su pedido" :> <<"s", "u", " ", "p", "e", "d", "i", "d", "o">>) @@
  ("tracking" :> <<"t", "r", "a", "c", "k", "i", "n", "g">>) @@
  ("number" :> <<"n", "u", "m", "b", "e", "r">>) @@
  ("mero de gu" :> <<"m", "e", "r", "o", " ", "d", "e", " ", "g", "u">>) @@
  ("a" :> <<"a">>) @@
  ("no responda" :> <<"n", "o", " ", "r", "e", "s", "p", "o", "n", "d", "a">>) @@
  ("este mensaje" :> <<"e", "s", "t", "e", " ", "m", "e", "n", "s", "a", "j", "e">>) @@
  ("mensaje autom" :> <<"m", "e", "n", "s", "a", "j", "e", " ", "a", "u", "t", "o", "m">>) @@
  ("tico" :> <<"t", "i", "c", "o">>) @@
  ("do not reply" :> <<"d", "o", " ", "n", "o", "t", " ", "r", "e", "p", "l", "y">>) @@
  ("" :> <<>>) @@
  ("hola" :> <<"h", "o", "l", "a">>) @@
  ("Necesito atencio'n humana!" :> <<"N", "e", "c", "e", "s", "i", "t", "o", " ", "a", "t", "e", "n", "c", "i", "o'", "n", " ", "h", "u", "m", "a", "n", "a", "!">>) @@
  ("Ya me decidi', lo quiero" :> <<"Y", "a", " ", "m", "e", " ", "d", "e", "c", "i", "d", "i'", ",", " ", "l", "o", " ", "q", "u", "i", "e", "r", "o">>) @@
  ("tu codigo de verificacion es 4821" :> <<"t", "u", " ", "c", "o", "d", "i", "g", "o", " ", "d", "e", " ", "v", "e", "r", "i", "f", "i", "c", "a", "c", "i", "o", "n", " ", "e", "s", " ", "4", "8", "2", "1">>) @@
  ("Juan Perez" :> <<"J", "u", "a", "n", " ", "P", "e", "r", "e", "z">>) @@
  ("Bancolombia" :> <<"B", "a", "n", "c", "o", "l", "o", "m", "b", "i", "a">>) @@
  ("57" :> <<"5", "7">>) @@
  ("57300111223" :> <<"5", "7", "3", "0", "0", "1", "1", "1", "2", "2", "3">>) @@
  ("85432" :> <<"8", "5", "4", "3", "2">>)

\* a literal run of a regular expression: one singleton class per character
Lit(s) == [i \in 1..Len(Chars[s]) |-> {Chars[s][i]}]

buyKeywords == <<
  "quiero comprar", "quiero comprarlo", "quiero comprarla", "lo quiero", "la quiero",
  "me lo llevo", "me la llevo", "lo llevo", "quiero hacer un pedido", "hacer pedido",
  "quiero ordenar", "me interesa comprar", "listo para comprar", "listo para pagar",
  "quiero pagar", "ya quiero pagar", "como pago", "donde pago", "quiero el plan",
  "quiero afiliarme", "quiero inscribirme", "tomenme los datos", "tomen mis datos",
  "tome mis datos", "ya me decidi", "ya me decidi'", "va listo", "dale listo", "hagamosle",
  "hagamole", "vamos con eso", "cerremos", "separamelo", "separamela", "apartamelo",
  "apartamela" >>

humanKeywords == <<
  "hablar con alguien", "hablar con humano", "hablar con persona", "hablar con asesor",
  "hablar con vendedor", "hablar con agente", "hablar con un asesor", "hablar con un humano",
  "hablar con un vendedor", "quiero un asesor", "quiero un humano", "quiero una persona",
  "pasar con alguien", "pasar con humano", "pasar con asesor", "pasame con", "pasame a",
  "redirigeme", "redirigime", "redirigame", "redirige", "rediriga", "transfiereme",
  "transferir", "transferirme", "transfiera", "comunicame", "conectame", "conecteme",
  "necesito ayuda personalizada", "atencion humana", "no quiero bot", "no eres humano",
  "eres robot", "eres un bot", "agente humano", "persona real", "quiero asesor",
  "necesito asesor", "un asesor", "con un humano", "con una persona", "con alguien real",
  "humano por favor", "asesor por favor" >>

BLOCKED_NAMES == <<
  "bancolombia", "nequi", "daviplata", "dale", "rappipay", "rappi", "movii", "tpaga", "bold",
  "payvalida", "payu", "epayco", "claro", "movistar", "tigo", "wom", "etb", "une", "compensar",
  "sura", "eps", "colmedica", "sanitas", "coomeva", "servientrega", "envia", "interrapidisimo",
  "coordinadora", "deprisa", "fedex", "uber", "didi", "indriver", "beat", "taskus", "task us",
  "task_us", "google", "whatsapp", "meta", "facebook", "instagram", "telegram", "chatgpt",
  "openai", "gemini", "copilot", "claude", "bot", "verificacio'n", "verificacion",
  "verification", "security", "seguridad", "notificacio'n", "notificacion", "notification",
  "alerta", "alert" >>

BOT_PATTERNS == <<
  \* /transacci[oo']n.*aprobada/i
  <<Lit("transacci") \o <<{"o", "o'"}>> \o Lit("n"), Lit("aprobada")>>,
  \* /transferencia.*exitosa/i
  <<Lit("transferencia"), Lit("exitosa")>>,
  \* /c[oo']digo de verificaci[oo']n/i
  <<Lit("c") \o <<{"o", "o'"}>> \o Lit("digo de verificaci") \o <<{"o", "o'"}>> \o Lit("n")>>,
  \* /c[oo']digo.*seguridad/i
  <<Lit("c") \o <<{"o", "o'"}>> \o Lit("digo"), Lit("seguridad")>>,
  \* /tu c[oo']digo es/i
  <<Lit("tu c") \o <<{"o", "o'"}>> \o Lit("digo es")>>,
  \* /your.*code.*is/i
  <<Lit("your"), Lit("code"), Lit("is")>>,
  \* /OTP.*\d{4,}/i
  <<Lit("otp"), <<Digit>> \o <<Digit>> \o <<Digit>> \o <<Digit>>>>,
  \* /saldo.*disponible/i
  <<Lit("saldo"), Lit("disponible")>>,
  \* /pago.*recibido/i
  <<Lit("pago"), Lit("recibido")>>,
  \* /factura.*generada/i
  <<Lit("factura"), Lit("generada")>>,
  \* /su pedido/i
  <<Lit("su pedido")>>,
  \* /tracking.*number/i
  <<Lit("tracking"), Lit("number")>>,
  \* /n[uu']mero de gu[ii']a/i
  <<Lit("n") \o <<{"u", "u'"}>> \o Lit("mero de gu") \o <<{"i", "i'"}>> \o Lit("a")>>,
  \* /no responda.*este mensaje/i
  <<Lit("no responda"), Lit("este mensaje")>>,
  \* /mensaje autom[aa']tico/i
  <<Lit("mensaje autom") \o <<{"a", "a'"}>> \o Lit("tico")>>,
  \* /do not reply/i
  <<Lit("do not reply")>> >>

\* ------------------------------------------- the message filters (index.js)

DigitChar == <<"1", "2", "3", "4", "5", "6", "7", "8", "9">>

\* a sender that is a short code, not a mobile line
ShortCode == 0

\* the lines of the staff: CONFIG.auditors holds one number, and employee e
\* was registered with a number of its own
AuditorPhone == -1
auditors == {AuditorPhone}
EmployeePhone(e) == -(e + 1)
StaffPhones == auditors \cup {EmployeePhone(e) : e \in EmployeeIds}
\* CONFIG.businessPhone, the line the bot itself answers on
businessPhone == -9

\* isAdmin: the number of the business or an auditor
isAdmin(phone) == phone = businessPhone \/ phone \in auditors

isAuditor(phone) == phone \in auditors

\* Faulty variant of the lookup: only the rows with is_active = 1 are found
\* (C30 must reject it).
getEmployeeByPhone_activeOnly(phone) ==
  IF \E e \in EmployeeIds : EmployeePhone(e) = phone /\ employees[e].is_active
  THEN CHOOSE e \in EmployeeIds : EmployeePhone(e) = phone
  ELSE 0

\* SELECT * FROM employees WHERE phone = ?: the id of the row, 0 for none
getEmployeeByPhone(phone) ==
  IF \E e \in EmployeeIds : EmployeePhone(e) = phone
  THEN CHOOSE e \in EmployeeIds : EmployeePhone(e) = phone
  ELSE 0

\* senderRaw = msg.from.replace('@c.us', ''): the digits of the sender's number
senderRaw(from) ==
  IF from = ShortCode THEN Chars["85432"]
  ELSE IF from < 0 THEN Chars["5731055500"] \o <<DigitChar[-from]>>
  ELSE Chars["57300111223"] \o <<DigitChar[from]>>

\* Faulty variant of the short-number test: only numbers of four digits or
\* fewer are short (C9 must reject it).
isShortNumber_four(from) == Len(replaceFirst(senderRaw(from), Chars["57"])) <= 4

\* senderClean.length <= 6, senderClean = senderRaw.replace('57', '')
isShortNumber(from) == Len(replaceFirst(senderRaw(from), Chars["57"])) <= 6

\* BLOCKED_NAMES.some(name => senderName.includes(name)), senderName in lower case
isBlockedName(chatName) ==
  \E k \in 1..Len(BLOCKED_NAMES) :
    includes(toLowerCase(Chars[chatName]), Chars[BLOCKED_NAMES[k]])

\* BOT_PATTERNS.some(pattern => pattern.test(msg.body || ''))
isBotMessage(body) ==
  \E k \in 1..Len(BOT_PATTERNS) : test(BOT_PATTERNS[k], Chars[body])

\* the senders, the chat names and the texts of the messages of the runs
Phones == ClientPhones \cup {ShortCode} \cup StaffPhones
MsgSenders == {1, ShortCode}
MsgNames == {"Juan Perez", "Bancolombia"}
MsgBodies == {"hola", "Necesito atencio'n humana!", "Ya me decidi', lo quiero",
              "tu codigo de verificacion es 4821"}
\* the texts of the inbox runs: nothing, blanks, and a command
InboxBodies == {"", "   ", "hola", "!stats", "Necesito atencio'n humana!"}
\* the commands an administrator sends about client 1
AdminBodies == {"!close 573001112231", "!reset 573001112231"}
AllBodies == MsgBodies \cup InboxBodies \cup AdminBodies
\* msg.type of the messages that are not text
MediaTypes == {"image", "sticker", "ptt"}

\* the three tests on each sender, chat name and text of the runs, computed once
ShortNumber == [f \in Phones |-> isShortNumber(f)]
DenyListed == [n \in MsgNames |-> isBlockedName(n)]
Automated == [b \in AllBodies |-> isBotMessage(b)]

\* the anti-bot filter returns before anything else is done
isBlocked(from, chatName, body) ==
  ShortNumber[from] \/ DenyListed[chatName] \/ Automated[body]

\* messageBody = msg.body.trim(), for each text of the runs
messageBody == [b \in AllBodies |-> trim(Chars[b])]

HandoffPunctuation == {"<?", "?", "<!", "!", ".", ",", ";", ":", "(", ")"}

\* humanKeywords.some(kw => lowerMessage.includes(kw)), and the same for buyKeywords
someKeyword(keywords, lowerMessage) ==
  \E k \in 1..Len(keywords) : includes(lowerMessage, Chars[keywords[k]])

detectHandoffIntent(message, humanOnly) ==
  LET lowerMessage ==
        removeAll(removeAll(normalizeNFD(toLowerCase(message)), CombiningMarks),
                  HandoffPunctuation)
  IN IF humanOnly
     THEN someKeyword(humanKeywords, lowerMessage)
     ELSE someKeyword(buyKeywords, lowerMessage) \/ someKeyword(humanKeywords, lowerMessage)

\* detectHandoffIntent(messageBody, true) and detectHandoffIntent(messageBody),
\* for each text of the runs
HumanPhrase == [b \in AllBodies |-> detectHandoffIntent(messageBody[b], TRUE)]
AnyPhrase == [b \in AllBodies |-> detectHandoffIntent(messageBody[b], FALSE)]

\* hasEnoughHistory: history.length >= 6, "3 user + 3 assistant = 6"
MinHistory == 6
\* getConversationHistory(senderPhone, 10)
HistoryLimit == 10

\* Faulty variant of the branch: the explicit request for a person needs the
\* history too (C7 must reject it).
derivesToEmployee_needsHistory(body, history) ==
  (AnyPhrase[body] \/ HumanPhrase[body]) /\ Len(history) >= MinHistory

\* handleClientMessage's branch: TRUE for handleHandoff, FALSE for the AI reply
derivesToEmployee(body, history) ==
  LET wantsHuman == AnyPhrase[body]
      hasEnoughHistory == Len(history) >= MinHistory
      wantsHumanExplicit == HumanPhrase[body]
  IN (wantsHuman /\ hasEnoughHistory) \/ wantsHumanExplicit

\* the anti-loop window and threshold
WindowMs == 300000
LoopThreshold == 10

\* Faulty variant of the tracker: the old entries are never dropped
\* (C10 must reject it).
trackMessage_noPrune(stamps, t) == Append(stamps, t)

\* Faulty variant of the tracker: the filter keeps the entries that are exactly
\* 5 minutes old (C26 must reject it).
trackMessage_keepsEdge(stamps, t) ==
  SelectSeq(Append(stamps, t), LAMBDA s : t - s <= WindowMs)

\* Faulty variant of the tracker: once the sender is over the threshold the
\* new timestamp is not kept (C35 must reject it).
trackMessage_skipsSuppressed(stamps, t) ==
  LET kept == SelectSeq(stamps, LAMBDA s : t - s < WindowMs)
  IN IF Len(kept) > LoopThreshold THEN kept ELSE Append(kept, t)

\* tracker[senderRaw].push(now), then the filter that drops the old entries
trackMessage(stamps, t) ==
  SelectSeq(Append(stamps, t), LAMBDA s : t - s < WindowMs)

isLoop(stamps) == Len(stamps) > LoopThreshold

\* ------------------------------------------------------------------ db.js

RECURSIVE ActiveFrom(_, _)
ActiveFrom(emps, id) ==
  IF id > MaxEmployees THEN <<>>
  ELSE (IF emps[id].is_active THEN <<id>> ELSE <<>>) \o ActiveFrom(emps, id + 1)

\* SELECT * FROM employees WHERE is_active = 1 ORDER BY id
getActiveEmployees(emps) == ActiveFrom(emps, 1)

\* Faulty variant of incrementAssignments: the WHERE clause is on is_active,
\* every active employee is counted (C25 must reject it).
incrementAssignments_everyone(emps, employeeId) ==
  [e \in DOMAIN emps |->
     IF emps[e].is_active THEN [emps[e] EXCEPT !.assignments_count = @ + 1] ELSE emps[e]]

\* UPDATE employees SET assignments_count = assignments_count + 1 WHERE id = ?
incrementAssignments(emps, employeeId) ==
  [emps EXCEPT ![employeeId].assignments_count = @ + 1]

\* The row SELECT ... WHERE client_phone = ? AND status = 'active'
\* ORDER BY assigned_at DESC LIMIT 1 yields, as its index in the table; 0 when
\* there is none.  Rows are inserted in assigned_at order.
getActiveAssignment(rows, clientPhone) ==
  LET act == {i \in 1..Len(rows) :
                rows[i].client_phone = clientPhone /\ rows[i].status = "active"}
  IN IF act = {} THEN 0 ELSE CHOOSE i \in act : \A j \in act : j <= i

\* UPDATE assignments SET status = 'completed' WHERE client_phone = ? AND status = 'active'
completeActive(rows, clientPhone) ==
  [i \in 1..Len(rows) |->
     IF rows[i].client_phone = clientPhone /\ rows[i].status = "active"
     THEN [rows[i] EXCEPT !.status = "completed"]
     ELSE rows[i]]

\* createAssignment: close the client's active rows, insert the new row
createAssignmentRows(rows, clientPhone, employeeId) ==
  Append(completeActive(rows, clientPhone),
         [client_phone |-> clientPhone, employee_id |-> employeeId, status |-> "active"])

\* Faulty variant of createAssignment: the call of incrementAssignments is
\* skipped when the client had a row before (C36 must reject it).
createAssignment_countsFirstOnly(rows, emps, clientPhone, employeeId) ==
  [rows |-> createAssignmentRows(rows, clientPhone, employeeId),
   emps |-> IF \E i \in 1..Len(rows) : rows[i].client_phone = clientPhone
            THEN emps ELSE incrementAssignments(emps, employeeId)]

\* createAssignment: the tables after it ran
createAssignment(rows, emps, clientPhone, employeeId) ==
  [rows |-> createAssignmentRows(rows, clientPhone, employeeId),
   emps |-> incrementAssignments(emps, employeeId)]

\* UPDATE clients SET status = ? WHERE phone = ?  (no row: nothing changes)
setClientStatus(cl, phone, status) ==
  IF cl[phone] = "none" THEN cl ELSE [cl EXCEPT ![phone] = status]

\* ---------------------------------------------------------------- router.js

\* Faulty variant of assignClient: it has no sticky check and inserts the new
\* row without completing the active one (C1 must reject it).
assignClient_noSticky(idx, rows, emps, clientPhone) ==
  LET roster == getActiveEmployees(emps)
  IN IF Len(roster) = 0
     THEN [idx |-> idx, rows |-> rows, emps |-> emps, result |-> 0, isNew |-> FALSE]
     ELSE LET next == (idx + 1) % Len(roster)
              added == Append(rows, [client_phone |-> clientPhone,
                                     employee_id |-> roster[next + 1], status |-> "active"])
          IN [idx |-> next, rows |-> added,
              emps |-> incrementAssignments(emps, roster[next + 1]),
              result |-> getActiveAssignment(added, clientPhone), isNew |-> TRUE]

\* Faulty variant of assignClient: the sticky branch advances the cursor
\* (C2 must reject it).
assignClient_stickyAdvances(idx, rows, emps, clientPhone) ==
  LET existing == getActiveAssignment(rows, clientPhone)
      roster == getActiveEmployees(emps)
  IN IF Len(roster) = 0
     THEN [idx |-> idx, rows |-> rows, emps |-> emps, result |-> 0, isNew |-> FALSE]
     ELSE LET next == (idx + 1) % Len(roster)
              made == createAssignment(rows, emps, clientPhone, roster[next + 1])
          IN IF existing # 0
             THEN [idx |-> next, rows |-> rows, emps |-> emps, result |-> existing,
                   isNew |-> FALSE]
             ELSE [idx |-> next, rows |-> made.rows, emps |-> made.emps,
                   result |-> getActiveAssignment(made.rows, clientPhone), isNew |-> TRUE]

\* Faulty variant of assignClient: the roster is every employee, active or
\* not (C31 must reject it).
assignClient_anyEmployee(idx, rows, emps, clientPhone) ==
  LET existing == getActiveAssignment(rows, clientPhone)
      roster == [i \in 1..MaxEmployees |-> i]
  IN IF existing # 0
     THEN [idx |-> idx, rows |-> rows, emps |-> emps, result |-> existing, isNew |-> FALSE]
     ELSE IF Len(getActiveEmployees(emps)) = 0
     THEN [idx |-> idx, rows |-> rows, emps |-> emps, result |-> 0, isNew |-> FALSE]
     ELSE LET next == (idx + 1) % Len(roster)
              made == createAssignment(rows, emps, clientPhone, roster[next + 1])
          IN [idx |-> next, rows |-> made.rows, emps |-> made.emps,
              result |-> getActiveAssignment(made.rows, clientPhone), isNew |-> TRUE]

\* Faulty variant of assignClient: the cursor advances by two (C4 must reject it).
assignClient_skipsOne(idx, rows, emps, clientPhone) ==
  LET existing == getActiveAssignment(rows, clientPhone)
      roster == getActiveEmployees(emps)
  IN IF existing # 0
     THEN [idx |-> idx, rows |-> rows, emps |-> emps, result |-> existing, isNew |-> FALSE]
     ELSE IF Len(roster) = 0
     THEN [idx |-> idx, rows |-> rows, emps |-> emps, result |-> 0, isNew |-> FALSE]
     ELSE LET next == (idx + 2) % Len(roster)
              made == createAssignment(rows, emps, clientPhone, roster[next + 1])
          IN [idx |-> next, rows |-> made.rows, emps |-> made.emps,
              result |-> getActiveAssignment(made.rows, clientPhone), isNew |-> TRUE]

\* Faulty variant of assignClient: the active assignment of the client is not
\* reused, every call completes it and makes a new one (C14 must reject it).
assignClient_alwaysNew(idx, rows, emps, clientPhone) ==
  LET roster == getActiveEmployees(emps)
  IN IF Len(roster) = 0
     THEN [idx |-> idx, rows |-> rows, emps |-> emps, result |-> 0, isNew |-> FALSE]
     ELSE LET next == (idx + 1) % Len(roster)
              made == createAssignment(rows, emps, clientPhone, roster[next + 1])
          IN [idx |-> next, rows |-> made.rows, emps |-> made.emps,
              result |-> getActiveAssignment(made.rows, clientPhone), isNew |-> TRUE]

\* Faulty variant of assignClient: the new cursor is computed but not stored
\* (C15 must reject it).
assignClient_cursorNotStored(idx, rows, emps, clientPhone) ==
  LET existing == getActiveAssignment(rows, clientPhone)
      roster == getActiveEmployees(emps)
  IN IF existing # 0
     THEN [idx |-> idx, rows |-> rows, emps |-> emps, result |-> existing, isNew |-> FALSE]
     ELSE IF Len(roster) = 0
     THEN [idx |-> idx, rows |-> rows, emps |-> emps, result |-> 0, isNew |-> FALSE]
     ELSE LET next == (idx + 1) % Len(roster)
              made == createAssignment(rows, emps, clientPhone, roster[next + 1])
          IN [idx |-> idx, rows |-> made.rows, emps |-> made.emps,
              result |-> getActiveAssignment(made.rows, clientPhone), isNew |-> TRUE]

\* assignClient: the cursor, the tables and the returned value
\* (result: the index of the returned assignment row, 0 for null)
assignClientResult(idx, rows, emps, clientPhone) ==
  LET existing == getActiveAssignment(rows, clientPhone)
      roster == getActiveEmployees(emps)
  IN IF existing # 0
     THEN [idx |-> idx, rows |-> rows, emps |-> emps, result |-> existing, isNew |-> FALSE]
     ELSE IF Len(roster) = 0
     THEN [idx |-> idx, rows |-> rows, emps |-> emps, result |-> 0, isNew |-> FALSE]
     ELSE LET next == (idx + 1) % Len(roster)
              made == createAssignment(rows, emps, clientPhone, roster[next + 1])
          IN [idx |-> next, rows |-> made.rows, emps |-> made.emps,
              result |-> getActiveAssignment(made.rows, clientPhone), isNew |-> TRUE]

\* Faulty variant of initRouter: the comparison is > and not >=, so the first
\* employee with the highest count is kept (C3 must reject it).
initRouter_firstMax(idx, emps) ==
  LET roster == getActiveEmployees(emps)
      IsMax(i) == \A j \in 1..Len(roster) :
                     emps[roster[j]].assignments_count <= emps[roster[i]].assignments_count
      first == CHOOSE i \in 1..Len(roster) :
                 IsMax(i) /\ \A j \in 1..Len(roster) : IsMax(j) => i <= j
  IN IF Len(roster) = 0 THEN idx
     ELSE IF emps[roster[first]].assignments_count = 0 THEN -1
     ELSE first - 1

\* Faulty variant of initRouter: the comparison is <= against a running
\* minimum, the cursor goes to the employee with the fewest assignments
\* (C22 must reject it).
initRouter_fewest(idx, emps) ==
  LET roster == getActiveEmployees(emps)
      IsMin(i) == \A j \in 1..Len(roster) :
                     emps[roster[i]].assignments_count <= emps[roster[j]].assignments_count
  IN IF Len(roster) = 0 THEN idx
     ELSE (CHOOSE i \in 1..Len(roster) :
             IsMin(i) /\ \A j \in 1..Len(roster) : IsMin(j) => j <= i) - 1

RECURSIVE initRouterScan(_, _, _, _, _)
\* employees.forEach((emp, index) => ...), from position index on: maxIndex
\* after the last callback
initRouterScan(roster, emps, index, maxAssignments, maxIndex) ==
  IF index >= Len(roster) THEN maxIndex
  ELSE IF emps[roster[index + 1]].assignments_count >= maxAssignments
       THEN initRouterScan(roster, emps, index + 1,
                           emps[roster[index + 1]].assignments_count, index)
  ELSE initRouterScan(roster, emps, index + 1, maxAssignments, maxIndex)

\* Faulty variant of initRouter: the cursor is put on the employee who is next
\* in turn, one past the last maximum (C24 must reject it).
initRouter_nextInTurn(idx, emps) ==
  LET roster == getActiveEmployees(emps)
  IN IF Len(roster) = 0 THEN idx
     ELSE (initRouterScan(roster, emps, 0, 0, -1) + 1) % Len(roster)

\* initRouter: the cursor after it ran
initRouterIndex(idx, emps) ==
  LET roster == getActiveEmployees(emps)
  IN IF Len(roster) = 0 THEN idx
     ELSE initRouterScan(roster, emps, 0, 0, -1)

\* ------------------------------------- the message handler (index.js 128-352)
\* One handler runs per inbound message; it is suspended at each await and the
\* handlers of other messages run in between.  getChat, getContact and
\* sendStateTyping are suspension points only.

Idle == [pc |-> "idle"]

\* the handler of a message that was just delivered: it awaits msg.getChat().
\* path is the branch taken, effects the calls made so far, history the rows
\* handleClientMessage read, priorPairs the exchanges stored before the message,
\* seq the position of the message in its sender's arrivals, attempt the number
\* of the axios.post call, errors how many calls failed, waits the backoff waits,
\* statuses the retryError.response?.status of each failed call,
\* type the msg.type of the message.
newHandler(from, chatName, body) ==
  [pc |-> "getChat", type |-> "chat", from |-> from, name |-> chatName, body |-> body,
   path |-> "", history |-> <<>>, priorPairs |-> 0, assignment |-> 0,
   attempt |-> 0, response |-> "", effects |-> {}, seq |-> 0, failed |-> FALSE,
   waits |-> <<>>, errors |-> 0, statuses |-> <<>>]

InFlight == {h \in DOMAIN handlers : handlers[h].pc # "idle"}

\* the handler of a message that is not text and has no caption
newMedia(from, chatName, type) ==
  [newHandler(from, chatName, "") EXCEPT !.type = type]

\* the handler returns (or its exception reaches the catch of line 349)
finish(h, rec) ==
  /\ handlers' = [handlers EXCEPT ![h] = Idle]
  /\ done' = [rec EXCEPT !.pc = "done"]

\* the user+assistant exchanges in a client's stored conversation
RECURSIVE countPairs(_)
countPairs(rows) ==
  IF Len(rows) < 2 THEN 0
  ELSE IF rows[1] = "user" /\ rows[2] = "assistant"
       THEN 1 + countPairs(SubSeq(rows, 3, Len(rows)))
       ELSE countPairs(Tail(rows))

\* getConversationHistory(phone, limit): the last `limit` rows, oldest first
getConversationHistory(rows, limit) ==
  IF Len(rows) <= limit THEN rows ELSE SubSeq(rows, Len(rows) - limit + 1, Len(rows))

\* ------------------------------------------------ strings (search.js)
\* the characters of the string literals of search.js, of the catalog file and of
\* the messages, written as in Chars
SearchText ==
  ("el" :> <<"e", "l">>) @@
  ("la" :> <<"l", "a">>) @@
  ("los" :> <<"l", "o", "s">>) @@
  ("las" :> <<"l", "a", "s">>) @@
  ("un" :> <<"u", "n">>) @@
  ("una" :> <<"u", "n", "a">>) @@
  ("unos" :> <<"u", "n", "o", "s">>) @@
  ("unas" :> <<"u", "n", "a", "s">>) @@
  ("de" :> <<"d", "e">>) @@
  ("del" :> <<"d", "e", "l">>) @@
  ("en" :> <<"e", "n">>) @@
  ("con" :> <<"c", "o", "n">>) @@
  ("por" :> <<"p", "o", "r">>) @@
  ("para" :> <<"p", "a", "r", "a">>) @@
  ("al" :> <<"a", "l">>) @@
  ("a" :> <<"a">>) @@
  ("y" :> <<"y">>) @@
  ("o" :> <<"o">>) @@
  ("que" :> <<"q", "u", "e">>) @@
  ("es" :> <<"e", "s">>) @@
  ("se" :> <<"s", "e">>) @@
  ("no" :> <<"n", "o">>) @@
  ("si" :> <<"s", "i">>) @@
  ("su" :> <<"s", "u">>) @@
  ("sus" :> <<"s", "u", "s">>) @@
  ("me" :> <<"m", "e">>) @@
  ("te" :> <<"t", "e">>) @@
  ("le" :> <<"l", "e">>) @@
  ("lo" :> <<"l", "o">>) @@
  ("mi" :> <<"m", "i">>) @@
  ("tu" :> <<"t", "u">>) @@
  ("ya" :> <<"y", "a">>) @@
  ("hay" :> <<"h", "a", "y">>) @@
  ("como" :> <<"c", "o", "m", "o">>) @@
  ("pero" :> <<"p", "e", "r", "o">>) @@
  ("ma's" :> <<"m", "a'", "s">>) @@
  ("mas" :> <<"m", "a", "s">>) @@
  ("este" :> <<"e", "s", "t", "e">>) @@
  ("esta" :> <<"e", "s", "t", "a">>) @@
  ("ese" :> <<"e", "s", "e">>) @@
  ("esa" :> <<"e", "s", "a">>) @@
  ("ser" :> <<"s", "e", "r">>) @@
  ("son" :> <<"s", "o", "n">>) @@
  ("esta'" :> <<"e", "s", "t", "a'">>) @@
  ("muy" :> <<"m", "u", "y">>) @@
  ("tan" :> <<"t", "a", "n">>) @@
  ("aqui'" :> <<"a", "q", "u", "i'">>) @@
  ("ahi'" :> <<"a", "h", "i'">>) @@
  ("hola" :> <<"h", "o", "l", "a">>) @@
  ("buenas" :> <<"b", "u", "e", "n", "a", "s">>) @@
  ("buenos" :> <<"b", "u", "e", "n", "o", "s">>) @@
  ("dias" :> <<"d", "i", "a", "s">>) @@
  ("di'as" :> <<"d", "i'", "a", "s">>) @@
  ("tardes" :> <<"t", "a", "r", "d", "e", "s">>) @@
  ("noches" :> <<"n", "o", "c", "h", "e", "s">>) @@
  ("gracias" :> <<"g", "r", "a", "c", "i", "a", "s">>) @@
  ("tienen" :> <<"t", "i", "e", "n", "e", "n">>) @@
  ("tienes" :> <<"t", "i", "e", "n", "e", "s">>) @@
  ("tiene" :> <<"t", "i", "e", "n", "e">>) @@
  ("quiero" :> <<"q", "u", "i", "e", "r", "o">>) @@
  ("necesito" :> <<"n", "e", "c", "e", "s", "i", "t", "o">>) @@
  ("busco" :> <<"b", "u", "s", "c", "o">>) @@
  ("ver" :> <<"v", "e", "r">>) @@
  ("saber" :> <<"s", "a", "b", "e", "r">>) @@
  ("cual" :> <<"c", "u", "a", "l">>) @@
  ("cua'l" :> <<"c", "u", "a'", "l">>) @@
  ("cuales" :> <<"c", "u", "a", "l", "e", "s">>) @@
  ("cua'les" :> <<"c", "u", "a'", "l", "e", "s">>) @@
  ("algo" :> <<"a", "l", "g", "o">>) @@
  ("todo" :> <<"t", "o", "d", "o">>) @@
  ("todos" :> <<"t", "o", "d", "o", "s">>) @@
  ("eso" :> <<"e", "s", "o">>) @@
  ("esto" :> <<"e", "s", "t", "o">>) @@
  ("bien" :> <<"b", "i", "e", "n">>) @@
  ("bueno" :> <<"b", "u", "e", "n", "o">>) @@
  ("dale" :> <<"d", "a", "l", "e">>) @@
  ("puedo" :> <<"p", "u", "e", "d", "o">>) @@
  ("puede" :> <<"p", "u", "e", "d", "e">>) @@
  ("podri'a" :> <<"p", "o", "d", "r", "i'", "a">>) @@
  ("favor" :> <<"f", "a", "v", "o", "r">>) @@
  ("por favor" :> <<"p", "o", "r", " ", "f", "a", "v", "o", "r">>) @@
  ("info" :> <<"i", "n", "f", "o">>) @@
  ("informacio'n" :> <<"i", "n", "f", "o", "r", "m", "a", "c", "i", "o'", "n">>) @@
  ("informacion" :> <<"i", "n", "f", "o", "r", "m", "a", "c", "i", "o", "n">>) @@
  ("sobre" :> <<"s", "o", "b", "r", "e">>) @@
  ("cua'nto" :> <<"c", "u", "a'", "n", "t", "o">>) @@
  ("cuanto" :> <<"c", "u", "a", "n", "t", "o">>) @@
  ("cuestan" :> <<"c", "u", "e", "s", "t", "a", "n">>) @@
  ("cuesta" :> <<"c", "u", "e", "s", "t", "a">>) @@
  ("vale" :> <<"v", "a", "l", "e">>) @@
  ("valen" :> <<"v", "a", "l", "e", "n">>) @@
  ("donde" :> <<"d", "o", "n", "d", "e">>) @@
  ("do'nde" :> <<"d", "o'", "n", "d", "e">>) @@
  ("cuando" :> <<"c", "u", "a", "n", "d", "o">>) @@
  ("cua'ndo" :> <<"c", "u", "a'", "n", "d", "o">>) @@
  ("quien" :> <<"q", "u", "i", "e", "n">>) @@
  ("quie'n" :> <<"q", "u", "i", "e'", "n">>) @@
  ("marca" :> <<"m", "a", "r", "c", "a">>) @@
  ("modelo" :> <<"m", "o", "d", "e", "l", "o">>) @@
  ("tipo" :> <<"t", "i", "p", "o">>) @@
  ("que'" :> <<"q", "u", "e'">>) @@
  ("co'mo" :> <<"c", "o'", "m", "o">>) @@
  ("esta'n" :> <<"e", "s", "t", "a'", "n">>) @@
  ("estan" :> <<"e", "s", "t", "a", "n">>) @@
  ("esta's" :> <<"e", "s", "t", "a'", "s">>) @@
  ("estas" :> <<"e", "s", "t", "a", "s">>) @@
  ("oye" :> <<"o", "y", "e">>) @@
  ("oiga" :> <<"o", "i", "g", "a">>) @@
  ("porfavor" :> <<"p", "o", "r", "f", "a", "v", "o", "r">>) @@
  ("disculpa" :> <<"d", "i", "s", "c", "u", "l", "p", "a">>) @@
  ("disculpe" :> <<"d", "i", "s", "c", "u", "l", "p", "e">>) @@
  ("perdo'n" :> <<"p", "e", "r", "d", "o'", "n">>) @@
  ("perdon" :> <<"p", "e", "r", "d", "o", "n">>) @@
  ("traumatica" :> <<"t", "r", "a", "u", "m", "a", "t", "i", "c", "a">>) @@
  ("trauma'tica" :> <<"t", "r", "a", "u", "m", "a'", "t", "i", "c", "a">>) @@
  ("pistola" :> <<"p", "i", "s", "t", "o", "l", "a">>) @@
  ("arma" :> <<"a", "r", "m", "a">>) @@
  ("revolver" :> <<"r", "e", "v", "o", "l", "v", "e", "r">>) @@
  ("revo'lver" :> <<"r", "e", "v", "o'", "l", "v", "e", "r">>) @@
  ("ekol" :> <<"e", "k", "o", "l">>) @@
  ("retay" :> <<"r", "e", "t", "a", "y">>) @@
  ("blow" :> <<"b", "l", "o", "w">>) @@
  ("negro" :> <<"n", "e", "g", "r", "o">>) @@
  ("negra" :> <<"n", "e", "g", "r", "a">>) @@
  ("fume" :> <<"f", "u", "m", "e">>) @@
  ("cromado" :> <<"c", "r", "o", "m", "a", "d", "o">>) @@
  ("compacto" :> <<"c", "o", "m", "p", "a", "c", "t", "o">>) @@
  ("mini" :> <<"m", "i", "n", "i">>) @@
  ("magnum" :> <<"m", "a", "g", "n", "u", "m">>) @@
  ("barato" :> <<"b", "a", "r", "a", "t", "o">>) @@
  ("caro" :> <<"c", "a", "r", "o">>) @@
  ("club" :> <<"c", "l", "u", "b">>) @@
  ("membresia" :> <<"m", "e", "m", "b", "r", "e", "s", "i", "a">>) @@
  ("membresi'a" :> <<"m", "e", "m", "b", "r", "e", "s", "i'", "a">>) @@
  ("legal" :> <<"l", "e", "g", "a", "l">>) @@
  ("juridico" :> <<"j", "u", "r", "i", "d", "i", "c", "o">>) @@
  ("juri'dico" :> <<"j", "u", "r", "i'", "d", "i", "c", "o">>) @@
  ("defensa" :> <<"d", "e", "f", "e", "n", "s", "a">>) @@
  ("carnet" :> <<"c", "a", "r", "n", "e", "t">>) @@
  ("municion" :> <<"m", "u", "n", "i", "c", "i", "o", "n">>) @@
  ("municio'n" :> <<"m", "u", "n", "i", "c", "i", "o'", "n">>) @@
  ("plan" :> <<"p", "l", "a", "n">>) @@
  ("plus" :> <<"p", "l", "u", "s">>) @@
  ("pro" :> <<"p", "r", "o">>) @@
  ("asesor" :> <<"a", "s", "e", "s", "o", "r">>) @@
  ("policia" :> <<"p", "o", "l", "i", "c", "i", "a">>) @@
  ("retencion" :> <<"r", "e", "t", "e", "n", "c", "i", "o", "n">>) @@
  ("decreto" :> <<"d", "e", "c", "r", "e", "t", "o">>) @@
  ("afiliacion" :> <<"a", "f", "i", "l", "i", "a", "c", "i", "o", "n">>) @@
  ("afiliacio'n" :> <<"a", "f", "i", "l", "i", "a", "c", "i", "o'", "n">>) @@
  ("trauma" :> <<"t", "r", "a", "u", "m", "a">>) @@
  ("tambor" :> <<"t", "a", "m", "b", "o", "r">>) @@
  ("black" :> <<"b", "l", "a", "c", "k">>) @@
  ("fume'" :> <<"f", "u", "m", "e'">>) @@
  ("gris" :> <<"g", "r", "i", "s">>) @@
  ("plomo" :> <<"p", "l", "o", "m", "o">>) @@
  ("cromo" :> <<"c", "r", "o", "m", "o">>) @@
  ("plateado" :> <<"p", "l", "a", "t", "e", "a", "d", "o">>) @@
  ("silver" :> <<"s", "i", "l", "v", "e", "r">>) @@
  ("compacta" :> <<"c", "o", "m", "p", "a", "c", "t", "a">>) @@
  ("pequen~a" :> <<"p", "e", "q", "u", "e", "n~", "a">>) @@
  ("pequen~o" :> <<"p", "e", "q", "u", "e", "n~", "o">>) @@
  ("grande" :> <<"g", "r", "a", "n", "d", "e">>) @@
  ("largo" :> <<"l", "a", "r", "g", "o">>) @@
  ("potente" :> <<"p", "o", "t", "e", "n", "t", "e">>) @@
  ("econo'mico" :> <<"e", "c", "o", "n", "o'", "m", "i", "c", "o">>) @@
  ("economico" :> <<"e", "c", "o", "n", "o", "m", "i", "c", "o">>) @@
  ("precio bajo" :> <<"p", "r", "e", "c", "i", "o", " ", "b", "a", "j", "o">>) @@
  ("accesible" :> <<"a", "c", "c", "e", "s", "i", "b", "l", "e">>) @@
  ("premium" :> <<"p", "r", "e", "m", "i", "u", "m">>) @@
  ("alta gama" :> <<"a", "l", "t", "a", " ", "g", "a", "m", "a">>) @@
  ("top" :> <<"t", "o", "p">>) @@
  ("ley" :> <<"l", "e", "y">>) @@
  ("legalidad" :> <<"l", "e", "g", "a", "l", "i", "d", "a", "d">>) @@
  ("proteccion" :> <<"p", "r", "o", "t", "e", "c", "c", "i", "o", "n">>) @@
  ("carne't" :> <<"c", "a", "r", "n", "e'", "t">>) @@
  ("certificado" :> <<"c", "e", "r", "t", "i", "f", "i", "c", "a", "d", "o">>) @@
  ("documento" :> <<"d", "o", "c", "u", "m", "e", "n", "t", "o">>) @@
  ("qr" :> <<"q", "r">>) @@
  ("cartuchos" :> <<"c", "a", "r", "t", "u", "c", "h", "o", "s">>) @@
  ("balas" :> <<"b", "a", "l", "a", "s">>) @@
  ("oskurzan" :> <<"o", "s", "k", "u", "r", "z", "a", "n">>) @@
  ("rubber" :> <<"r", "u", "b", "b", "e", "r">>) @@
  ("plan plus" :> <<"p", "l", "a", "n", " ", "p", "l", "u", "s">>) @@
  ("plan pro" :> <<"p", "l", "a", "n", " ", "p", "r", "o">>) @@
  ("asesor legal" :> <<"a", "s", "e", "s", "o", "r", " ", "l", "e", "g", "a", "l">>) @@
  ("ia legal" :> <<"i", "a", " ", "l", "e", "g", "a", "l">>) @@
  ("bot legal" :> <<"b", "o", "t", " ", "l", "e", "g", "a", "l">>) @@
  ("legal ia" :> <<"l", "e", "g", "a", "l", " ", "i", "a">>) @@
  ("polici'a" :> <<"p", "o", "l", "i", "c", "i'", "a">>) @@
  ("retencio'n" :> <<"r", "e", "t", "e", "n", "c", "i", "o'", "n">>) @@
  ("incautacion" :> <<"i", "n", "c", "a", "u", "t", "a", "c", "i", "o", "n">>) @@
  ("decreto 2535" :> <<"d", "e", "c", "r", "e", "t", "o", " ", "2", "5", "3", "5">>) @@
  ("ley 2197" :> <<"l", "e", "y", " ", "2", "1", "9", "7">>) @@
  ("" :> <<>>) @@
  (" " :> <<" ">>) @@
  ("x" :> <<"x">>) @@
  ("5" :> <<"5">>) @@
  ("?" :> <<"?">>) @@
  ("<?" :> <<"<?">>) @@
  ("!" :> <<"!">>) @@
  ("," :> <<",">>) @@
  ("glock" :> <<"g", "l", "o", "c", "k">>) @@
  ("pistola negra" :> <<"p", "i", "s", "t", "o", "l", "a", " ", "n", "e", "g", "r", "a">>) @@
  ("aqui" :> <<"a", "q", "u", "i">>) @@
  ("ahi" :> <<"a", "h", "i">>) @@
  ("podria" :> <<"p", "o", "d", "r", "i", "a">>) @@
  ("RETAY" :> <<"R", "E", "T", "A", "Y">>) @@
  ("EKOL" :> <<"E", "K", "O", "L">>) @@
  ("BLOW" :> <<"B", "L", "O", "W">>) @@
  ("Retay G17 Negra" :> <<"R", "e", "t", "a", "y", " ", "G", "1", "7", " ", "N", "e", "g", "r", "a">>) @@
  ("Retay S2022 Fume" :> <<"R", "e", "t", "a", "y", " ", "S", "2", "0", "2", "2", " ", "F", "u", "m", "e">>) @@
  ("Retay Mini 9" :> <<"R", "e", "t", "a", "y", " ", "M", "i", "n", "i", " ", "9">>) @@
  ("Retay Volga" :> <<"R", "e", "t", "a", "y", " ", "V", "o", "l", "g", "a">>) @@
  ("Ekol Firat Magnum" :> <<"E", "k", "o", "l", " ", "F", "i", "r", "a", "t", " ", "M", "a", "g", "n", "u", "m">>) @@
  ("Ekol Dicle Negra" :> <<"E", "k", "o", "l", " ", "D", "i", "c", "l", "e", " ", "N", "e", "g", "r", "a">>) @@
  ("Ekol Botan" :> <<"E", "k", "o", "l", " ", "B", "o", "t", "a", "n">>) @@
  ("Blow TR92 Negra" :> <<"B", "l", "o", "w", " ", "T", "R", "9", "2", " ", "N", "e", "g", "r", "a">>) @@
  ("Blow F92" :> <<"B", "l", "o", "w", " ", "F", "9", "2">>) @@
  ("pistola traumatica" :> <<"p", "i", "s", "t", "o", "l", "a", " ", "t", "r", "a", "u", "m", "a", "t", "i", "c", "a">>) @@
  ("pistola trauma'tica compacta" :> <<"p", "i", "s", "t", "o", "l", "a", " ", "t", "r", "a", "u", "m", "a'", "t", "i", "c", "a", " ", "c", "o", "m", "p", "a", "c", "t", "a">>) @@
  ("revolver de tambor" :> <<"r", "e", "v", "o", "l", "v", "e", "r", " ", "d", "e", " ", "t", "a", "m", "b", "o", "r">>) @@
  ("Retay" :> <<"R", "e", "t", "a", "y">>) @@
  ("Ekol" :> <<"E", "k", "o", "l">>) @@
  ("Blow" :> <<"B", "l", "o", "w">>) @@
  ("G17" :> <<"G", "1", "7">>) @@
  ("S2022" :> <<"S", "2", "0", "2", "2">>) @@
  ("Mini 9" :> <<"M", "i", "n", "i", " ", "9">>) @@
  ("Volga" :> <<"V", "o", "l", "g", "a">>) @@
  ("Firat" :> <<"F", "i", "r", "a", "t">>) @@
  ("Dicle" :> <<"D", "i", "c", "l", "e">>) @@
  ("Botan" :> <<"B", "o", "t", "a", "n">>) @@
  ("TR92" :> <<"T", "R", "9", "2">>) @@
  ("F92" :> <<"F", "9", "2">>) @@
  ("9mm" :> <<"9", "m", "m">>) @@
  ("<?Hola, que tal?" :> <<"<?", "H", "o", "l", "a", ",", " ", "q", "u", "e", " ", "t", "a", "l", "?">>) @@
  ("Aqui'" :> <<"A", "q", "u", "i'">>) @@
  ("AHI'" :> <<"A", "H", "I'">>) @@
  ("Podri'a" :> <<"P", "o", "d", "r", "i'", "a">>) @@
  ("<!Hola! <?Co'mo esta' usted?" :> <<"<!", "H", "o", "l", "a", "!", " ", "<?", "C", "o'", "m", "o", " ", "e", "s", "t", "a'", " ", "u", "s", "t", "e", "d", "?">>) @@
  ("por favor, x 5" :> <<"p", "o", "r", " ", "f", "a", "v", "o", "r", ",", " ", "x", " ", "5">>) @@
  ("quiero una pistola" :> <<"q", "u", "i", "e", "r", "o", " ", "u", "n", "a", " ", "p", "i", "s", "t", "o", "l", "a">>) @@
  ("Pistola negra!" :> <<"P", "i", "s", "t", "o", "l", "a", " ", "n", "e", "g", "r", "a", "!">>) @@
  ("barata" :> <<"b", "a", "r", "a", "t", "a">>) @@
  ("Ekol Magnum" :> <<"E", "k", "o", "l", " ", "M", "a", "g", "n", "u", "m">>) @@
  ("el de la" :> <<"e", "l", " ", "d", "e", " ", "l", "a">>) @@
  ("Buenos di'as." :> <<"B", "u", "e", "n", "o", "s", " ", "d", "i'", "a", "s", ".">>) @@
  ("constructor" :> <<"c", "o", "n", "s", "t", "r", "u", "c", "t", "o", "r">>) @@
  ("__proto__" :> <<"_", "_", "p", "r", "o", "t", "o", "_", "_">>) @@
  ("un constructor" :> <<"u", "n", " ", "c", "o", "n", "s", "t", "r", "u", "c", "t", "o", "r">>) @@
  ("Una pistola, constructor" :> <<"U", "n", "a", " ", "p", "i", "s", "t", "o", "l", "a", ",", " ", "c", "o", "n", "s", "t", "r", "u", "c", "t", "o", "r">>) @@
  ("cuanto vale la retay negra" :> <<"c", "u", "a", "n", "t", "o", " ", "v", "a", "l", "e", " ", "l", "a", " ", "r", "e", "t", "a", "y", " ", "n", "e", "g", "r", "a">>) @@
  ("RETAY G17 Negra" :> <<"R", "E", "T", "A", "Y", " ", "G", "1", "7", " ", "N", "e", "g", "r", "a">>) @@
  ("Pistola RETAY G17 9mm negra" :> <<"P", "i", "s", "t", "o", "l", "a", " ", "R", "E", "T", "A", "Y", " ", "G", "1", "7", " ", "9", "m", "m", " ", "n", "e", "g", "r", "a">>) @@
  ("OFERTAS" :> <<"O", "F", "E", "R", "T", "A", "S">>)

\* the entries of STOP_WORDS, as written in the source
StopWordKeys == {
  "el", "la", "los", "las", "un", "una", "unos", "unas", "de", "del", "en", "con", "por",
  "para", "al", "a", "y", "o", "que", "es", "se", "no", "si", "su", "sus", "me", "te", "le",
  "lo", "mi", "tu", "ya", "hay", "como", "pero", "ma's", "mas", "este", "esta", "ese", "esa",
  "ser", "son", "esta'", "muy", "tan", "aqui'", "ahi'", "hola", "buenas", "buenos", "dias",
  "di'as", "tardes", "noches", "gracias", "tienen", "tienes", "tiene", "quiero", "necesito",
  "busco", "ver", "saber", "cual", "cua'l", "cuales", "cua'les", "algo", "todo", "todos",
  "eso", "esto", "bien", "bueno", "dale", "puedo", "puede", "podri'a", "favor", "por favor",
  "info", "informacio'n", "informacion", "sobre", "cua'nto", "cuanto", "cuestan", "cuesta",
  "vale", "valen", "donde", "do'nde", "cuando", "cua'ndo", "quien", "quie'n", "marca",
  "modelo", "tipo", "que'", "co'mo", "esta'n", "estan", "esta's", "estas", "oye", "oiga",
  "porfavor", "disculpa", "disculpe", "perdo'n", "perdon" }

\* const STOP_WORDS = new Set([...])
STOP_WORDS == {SearchText[w] : w \in StopWordKeys}

\* the keys of SYNONYMS with their expansions, in the order of the source
SYNONYMS == <<
  <<"traumatica", <<"trauma'tica", "trauma", "pistola", "arma">>>>,
  <<"trauma'tica", <<"traumatica", "trauma", "pistola", "arma">>>>,
  <<"pistola", <<"arma", "trauma'tica", "traumatica", "revolver">>>>,
  <<"arma", <<"pistola", "trauma'tica", "traumatica", "revolver">>>>,
  <<"revolver", <<"revo'lver", "ekol", "tambor">>>>,
  <<"revo'lver", <<"revolver", "ekol", "tambor">>>>,
  <<"ekol", <<"ekol">>>>,
  <<"retay", <<"retay">>>>,
  <<"blow", <<"blow">>>>,
  <<"negro", <<"negra", "black">>>>,
  <<"negra", <<"negro", "black">>>>,
  <<"fume", <<"fume'", "gris", "plomo">>>>,
  <<"cromado", <<"cromo", "plateado", "silver">>>>,
  <<"compacto", <<"compacta", "pequen~a", "pequen~o", "mini">>>>,
  <<"mini", <<"compacto", "compacta", "pequen~o", "pequen~a">>>>,
  <<"magnum", <<"grande", "largo", "potente">>>>,
  <<"barato", <<"econo'mico", "economico", "precio bajo", "accesible">>>>,
  <<"caro", <<"premium", "alta gama", "top">>>>,
  <<"club", <<"membresi'a", "membresia", "plan", "plus", "pro">>>>,
  <<"membresia", <<"club", "membresi'a", "plan", "plus", "pro">>>>,
  <<"membresi'a", <<"club", "membresia", "plan", "plus", "pro">>>>,
  <<"legal", <<"ley", "juridico", "juri'dico", "legalidad">>>>,
  <<"juridico", <<"legal", "juri'dico", "ley", "defensa">>>>,
  <<"juri'dico", <<"legal", "juridico", "ley", "defensa">>>>,
  <<"defensa", <<"juridico", "juri'dico", "legal", "proteccion">>>>,
  <<"carnet", <<"carne't", "certificado", "documento", "qr">>>>,
  <<"municion", <<"municio'n", "cartuchos", "balas", "oskurzan", "rubber">>>>,
  <<"municio'n", <<"municion", "cartuchos", "balas", "oskurzan", "rubber">>>>,
  <<"plan", <<"plus", "pro", "membresi'a", "membresia", "club">>>>,
  <<"plus", <<"plan plus", "plan", "club">>>>,
  <<"pro", <<"plan pro", "plan", "club">>>>,
  <<"asesor", <<"asesor legal", "ia legal", "bot legal", "legal ia">>>>,
  <<"policia", <<"polici'a", "retencion", "retencio'n", "incautacion", "ley">>>>,
  <<"retencion", <<"retencio'n", "policia", "polici'a", "incautacion", "ley">>>>,
  <<"decreto", <<"decreto 2535", "ley 2197", "legal", "juridico">>>>,
  <<"afiliacion", <<"afiliacio'n", "club", "membresia", "carnet">>>>,
  <<"afiliacio'n", <<"afiliacion", "club", "membresia", "carnet">>>> >>

\* --------------------------------------------------- keywords (search.js)

\* String.prototype.replace(/[class]/g, ch)
replaceEach(t, class, ch) == [i \in 1..Len(t) |-> IF t[i] \in class THEN ch ELSE t[i]]

RECURSIVE collapseSpaces(_)
\* String.prototype.replace(/\s+/g, ' ')
collapseSpaces(t) ==
  IF t = <<>> THEN <<>>
  ELSE IF Head(t) \in WhiteSpace THEN <<" ">> \o collapseSpaces(trimStart(t))
  ELSE <<Head(t)>> \o collapseSpaces(Tail(t))

RECURSIVE split(_, _)
\* String.prototype.split(sep), for a separator of one character
split(t, sep) ==
  IF \E i \in 1..Len(t) : t[i] = sep
  THEN LET i == CHOOSE j \in 1..Len(t) : t[j] = sep /\ \A k \in 1..(j - 1) : t[k] # sep
       IN  <<SubSeq(t, 1, i - 1)>> \o split(SubSeq(t, i + 1, Len(t)), sep)
  ELSE <<t>>

RECURSIVE join(_, _)
\* Array.prototype.join(sep)
join(words, sep) ==
  IF words = <<>> THEN <<>>
  ELSE IF Len(words) = 1 THEN words[1]
  ELSE words[1] \o sep \o join(Tail(words), sep)

\* String.prototype.startsWith
startsWith(t, p) == Len(p) <= Len(t) /\ SubSeq(t, 1, Len(p)) = p

\* the class of extractKeywords' second replace
KeywordPunctuation ==
  {"<?", "?", "<!", "!", ".", ",", ";", ":", "(", ")", "{", "}", "[", "]", "\"", "'"}

\* SYNONYMS[word], the empty list when word is not a key
synonymsOf(word) ==
  LET hits == {i \in 1..Len(SYNONYMS) : SearchText[SYNONYMS[i][1]] = word}
  IN  IF hits = {} THEN <<>>
      ELSE LET i == CHOOSE j \in hits : TRUE
           IN  [k \in 1..Len(SYNONYMS[i][2]) |-> SearchText[SYNONYMS[i][2][k]]]

RECURSIVE addAll(_, _)
\* Set.prototype.add of each item; a Set keeps the order of first insertion
addAll(set, items) ==
  IF items = <<>> THEN set
  ELSE addAll(IF \E i \in 1..Len(set) : set[i] = Head(items) THEN set
              ELSE Append(set, Head(items)),
              Tail(items))

RECURSIVE expandSynonyms(_, _)
\* words.forEach(word => SYNONYMS[word].forEach(syn => expanded.add(syn)))
expandSynonyms(expanded, words) ==
  IF words = <<>> THEN expanded
  ELSE expandSynonyms(addAll(expanded, synonymsOf(Head(words))), Tail(words))

\* the words extractKeywords keeps before the expansion
keptWords(message) ==
  LET clean == trim(collapseSpaces(replaceEach(
                 removeAll(normalizeNFD(toLowerCase(message)), CombiningMarks),
                 KeywordPunctuation, " ")))
  IN  SelectSeq(split(clean, " "), LAMBDA w : Len(w) > 1 /\ w \notin STOP_WORDS)

\* the lower-case words that name a property SYNONYMS inherits from
\* Object.prototype: SYNONYMS[word] is then a value without forEach
InheritedNames == {SearchText["constructor"], SearchText["__proto__"]}

\* SYNONYMS[word].forEach is not a function: extractKeywords throws a TypeError
extractThrows(message) ==
  \E i \in 1..Len(keptWords(message)) : keptWords(message)[i] \in InheritedNames

\* extractKeywords(message), when it returns
extractKeywords(message) ==
  LET words == keptWords(message)
  IN  expandSynonyms(addAll(<<>>, words), words)

\* --------------------------------------------------- the catalog (search.js)

\* a product of the catalog file; titulo is "absent" on an entry without one
Product(titulo, descripcion, marca, modelo, keywords, disponible) ==
  [titulo |-> titulo, descripcion |-> descripcion, marca |-> marca, modelo |-> modelo,
   keywords |-> keywords, disponible |-> disponible]

Absent == "absent"

\* what the catalog file may hold: nothing readable, text that is not JSON, or
\* a JSON object, with or without categorias
Unreadable == [kind |-> "unreadable"]
Malformed == [kind |-> "malformed"]
NoCategorias == [kind |-> "json", hasCategorias |-> FALSE, categorias |-> <<>>]

FullCatalog ==
  [kind |-> "json", hasCategorias |-> TRUE, categorias |-> <<
    [categoria |-> "RETAY", productos |-> <<
       Product("Retay G17 Negra", "pistola traumatica", "Retay", "G17", <<"negra", "9mm">>, TRUE),
       Product("Retay S2022 Fume", "pistola traumatica", "Retay", "S2022", <<"fume">>, FALSE),
       Product("Retay Mini 9", "pistola trauma'tica compacta", "", "Mini 9", <<"compacta">>, TRUE),
       Product("Retay Volga", "pistola traumatica", "Retay", "Volga", <<>>, TRUE) >>],
    [categoria |-> "EKOL", productos |-> <<
       Product("Ekol Firat Magnum", "pistola traumatica", "Ekol", "Firat", <<"magnum">>, TRUE),
       Product("Ekol Dicle Negra", "pistola traumatica", "Ekol", "Dicle", <<"negra">>, FALSE),
       Product("Ekol Botan", "revolver de tambor", "Ekol", "Botan", <<>>, TRUE) >>],
    [categoria |-> "BLOW", productos |-> <<
       Product("Blow TR92 Negra", "pistola traumatica", "Blow", "TR92", <<"negra">>, TRUE),
       Product("Blow F92", "pistola traumatica", "Blow", "F92", <<>>, TRUE) >>] >>]

SmallCatalog ==
  [kind |-> "json", hasCategorias |-> TRUE, categorias |-> <<
    [categoria |-> "EKOL", productos |-> <<
       Product("Ekol Botan", "revolver de tambor", "Ekol", "Botan", <<>>, FALSE),
       Product("Ekol Firat Magnum", "pistola traumatica", "Ekol", "Firat", <<"magnum">>, TRUE) >>] >>]

\* a catalog file whose second product has no titulo
BrokenCatalog ==
  [kind |-> "json", hasCategorias |-> TRUE, categorias |-> <<
    [categoria |-> "RETAY", productos |-> <<
       Product("Retay G17 Negra", "pistola traumatica", "Retay", "G17", <<"negra", "9mm">>, TRUE),
       Product(Absent, "pistola", "Retay", "", <<>>, TRUE),
       Product("Retay Volga", "pistola traumatica", "Retay", "Volga", <<>>, TRUE) >>] >>]

\* a catalog file with a product that only its title describes
ScenarioCatalog ==
  [kind |-> "json", hasCategorias |-> TRUE, categorias |-> <<
    [categoria |-> "OFERTAS", productos |-> <<
       Product("Ekol Botan", "revolver de tambor", "Ekol", "Botan", <<>>, TRUE),
       Product("RETAY G17 Negra", "", "", "", <<>>, FALSE) >>] >>]

WellFormed == {FullCatalog, SmallCatalog}
Sources == {Unreadable, Malformed, NoCategorias, BrokenCatalog} \cup WellFormed

Texts(keys) == [i \in 1..Len(keys) |-> SearchText[keys[i]]]

\* the element loadCatalog pushes for product p of a category
catalogItem(p, categoria) ==
  [titulo |-> p.titulo, categoria |-> categoria, marca |-> p.marca, modelo |-> p.modelo,
   disponible |-> p.disponible,
   _tituloLower |-> toLowerCase(SearchText[p.titulo]),
   _descLower |-> toLowerCase(SearchText[p.descripcion]),
   _searchText |-> toLowerCase(join(
       <<SearchText[p.titulo], SearchText[p.descripcion], SearchText[p.marca],
         SearchText[p.modelo], SearchText[categoria], join(Texts(p.keywords), <<" ">>)>>,
       <<" ">>))]

RECURSIVE pushProducts(_, _, _)
\* productos.forEach(p => catalogo.push(...)): the list, and whether the
\* callback threw (p.titulo.toLowerCase() of a product without titulo)
pushProducts(list, categoria, productos) ==
  IF productos = <<>> THEN [catalogo |-> list, failed |-> FALSE]
  ELSE IF Head(productos).titulo = Absent THEN [catalogo |-> list, failed |-> TRUE]
  ELSE pushProducts(Append(list, catalogItem(Head(productos), categoria)),
                    categoria, Tail(productos))

RECURSIVE pushCategories(_, _)
\* for (const [categoria, productos] of Object.entries(data.categorias))
pushCategories(list, entries) ==
  IF entries = <<>> THEN [catalogo |-> list, failed |-> FALSE]
  ELSE LET r == pushProducts(list, Head(entries).categoria, Head(entries).productos)
       IN  IF r.failed THEN r ELSE pushCategories(r.catalogo, Tail(entries))

\* loadCatalog: the catalog it leaves and whether its catch block ran
loadCatalogResult(previous, file) ==
  IF file.kind # "json" THEN [catalogo |-> previous, failed |-> TRUE]
  ELSE IF ~file.hasCategorias THEN [catalogo |-> <<>>, failed |-> TRUE]
  ELSE pushCategories(<<>>, file.categorias)

\* --------------------------------------------------- the ranking (search.js)

DefaultMaxResults == 6

\* Faulty variant of the scoring: a keyword found nowhere in the product costs
\* one point (C18 must reject it).
keywordScore_penalty(product, keyword) ==
  IF includes(product._searchText, keyword)
  THEN   (IF includes(product._tituloLower, keyword)
          THEN 10 + (IF startsWith(product._tituloLower, keyword) THEN 5 ELSE 0) ELSE 0)
       + (IF includes(product._descLower, keyword) THEN 3 ELSE 0)
       + (IF includes(toLowerCase(SearchText[product.categoria]), keyword) THEN 5 ELSE 0)
       + (IF includes(toLowerCase(SearchText[product.marca]), keyword) THEN 8 ELSE 0)
       + (IF includes(toLowerCase(SearchText[product.modelo]), keyword) THEN 8 ELSE 0)
       + 2
  ELSE -1

\* Faulty variant of the scoring: a title that starts with the keyword earns
\* nothing more (C29 must reject it).
keywordScore_noPrefix(product, keyword) ==
    (IF includes(product._tituloLower, keyword) THEN 10 ELSE 0)
  + (IF includes(product._descLower, keyword) THEN 3 ELSE 0)
  + (IF includes(toLowerCase(SearchText[product.categoria]), keyword) THEN 5 ELSE 0)
  + (IF includes(toLowerCase(SearchText[product.marca]), keyword) THEN 8 ELSE 0)
  + (IF includes(toLowerCase(SearchText[product.modelo]), keyword) THEN 8 ELSE 0)
  + (IF includes(product._searchText, keyword) THEN 2 ELSE 0)

\* what one keyword adds to the score of a product
keywordScore(product, keyword) ==
    (IF includes(product._tituloLower, keyword)
     THEN 10 + (IF startsWith(product._tituloLower, keyword) THEN 5 ELSE 0) ELSE 0)
  + (IF includes(product._descLower, keyword) THEN 3 ELSE 0)
  + (IF includes(toLowerCase(SearchText[product.categoria]), keyword) THEN 5 ELSE 0)
  + (IF includes(toLowerCase(SearchText[product.marca]), keyword) THEN 8 ELSE 0)
  + (IF includes(toLowerCase(SearchText[product.modelo]), keyword) THEN 8 ELSE 0)
  + (IF includes(product._searchText, keyword) THEN 2 ELSE 0)

RECURSIVE keywordsScore(_, _)
keywordsScore(product, keywords) ==
  IF keywords = <<>> THEN 0
  ELSE keywordScore(product, Head(keywords)) + keywordsScore(product, Tail(keywords))

\* the _score of a product for a keyword list
score(product, keywords) ==
  keywordsScore(product, keywords) + (IF product.disponible THEN 1 ELSE 0)

RECURSIVE insertByScore_unstable(_, _)
\* Faulty variant of the sort: p goes ahead of the elements of equal score
\* (C19 must reject it).
insertByScore_unstable(sorted, p) ==
  IF sorted = <<>> THEN <<p>>
  ELSE IF Head(sorted)._score > p._score
       THEN <<Head(sorted)>> \o insertByScore_unstable(Tail(sorted), p)
  ELSE <<p>> \o sorted

RECURSIVE insertByScore(_, _)
\* p goes behind every element that does not score less
insertByScore(sorted, p) ==
  IF sorted = <<>> THEN <<p>>
  ELSE IF Head(sorted)._score >= p._score
       THEN <<Head(sorted)>> \o insertByScore(Tail(sorted), p)
  ELSE <<p>> \o sorted

RECURSIVE sortByScore(_)
\* Array.prototype.sort((a, b) => b._score - a._score), a stable sort
sortByScore(items) ==
  IF items = <<>> THEN <<>>
  ELSE insertByScore(sortByScore(SubSeq(items, 1, Len(items) - 1)), items[Len(items)])

\* Array.prototype.slice(0, n), n >= 0
sliceTo(items, n) == SubSeq(items, 1, IF n < Len(items) THEN n ELSE Len(items))

\* the products are written by their position in the catalog
scored(list, keywords) ==
  [i \in 1..Len(list) |-> [index |-> i, _score |-> score(list[i], keywords)]]

Marcas == <<"RETAY", "EKOL", "BLOW">>

\* Faulty variant of getHighlightProducts: the first product of each marca,
\* available or not (C21 must reject it).
getHighlightProducts_anyFirst(list) ==
  LET first(marca) ==
        LET inMarca == SelectSeq([i \in 1..Len(list) |-> i],
                         LAMBDA i : list[i].categoria = marca)
        IN  IF inMarca = <<>> THEN <<>> ELSE <<[index |-> inMarca[1]]>>
  IN  first(Marcas[1]) \o first(Marcas[2]) \o first(Marcas[3])

\* getHighlightProducts: the first available product of each marca
getHighlightProducts(list) ==
  LET first(marca) ==
        LET inMarca == SelectSeq([i \in 1..Len(list) |-> i],
                         LAMBDA i : list[i].categoria = marca /\ list[i].disponible)
        IN  IF inMarca = <<>> THEN <<>> ELSE <<[index |-> inMarca[1]]>>
  IN  first(Marcas[1]) \o first(Marcas[2]) \o first(Marcas[3])

\* Faulty variant of searchProducts: totalFound is counted after the
\* truncation (C20 must reject it).
searchResult_countsReturned(list, message, maxResults) ==
  LET keywords == extractKeywords(message)
  IN  IF keywords = <<>>
      THEN [keywords |-> <<>>, products |-> getHighlightProducts(list),
            totalFound |-> 0, strategy |-> "highlights"]
      ELSE LET all == scored(list, keywords)
               positive == SelectSeq(all, LAMBDA p : p._score > 0)
               results == sliceTo(sortByScore(positive), maxResults)
           IN  [keywords |-> keywords, products |-> results,
                totalFound |-> Len(results), strategy |-> "search"]

\* searchProducts(message, maxResults) over the catalog list
searchResult(list, message, maxResults) ==
  LET keywords == extractKeywords(message)
  IN  IF keywords = <<>>
      THEN [keywords |-> <<>>, products |-> getHighlightProducts(list),
            totalFound |-> 0, strategy |-> "highlights"]
      ELSE LET all == scored(list, keywords)
               positive == SelectSeq(all, LAMBDA p : p._score > 0)
           IN  [keywords |-> keywords,
                products |-> sliceTo(sortByScore(positive), maxResults),
                totalFound |-> Len(positive), strategy |-> "search"]

\* ------------------------------------------------- the state before any call

SmallMaxResults == 2

NotLoaded == [before |-> <<>>, failed |-> FALSE]
NotSearched ==
  [message |-> "", maxResults |-> DefaultMaxResults, seen |-> <<>>,
   result |-> [keywords |-> <<>>, products |-> <<>>, totalFound |-> 0, strategy |-> "none"]]
NoInput == [pc |-> "idle", message |-> "", keywords |-> <<>>, again |-> <<>>]
\* searchProducts did not return: extractKeywords threw
Thrown == [keywords |-> <<>>, products |-> <<>>, totalFound |-> 0, strategy |-> "TypeError"]

\* ------------------------------------------------- the router and db calls

NoHandlers == [h \in 1..MaxInFlight |-> Idle]
\* the bot has not been restarted
NotRestarted == [rows |-> -1, next |-> 0]

InitMsgTables ==
  /\ assignments = <<>>
  /\ returned = [client |-> 0, result |-> 0]
  /\ recovered = NotRestarted
  /\ handlers = NoHandlers
  /\ done = Idle
  /\ tracker = [p \in Phones |-> <<>>]
  /\ now = 0
  /\ arrivals = [p \in Phones |-> <<>>]
  /\ received = 0

\* nothing of search.js has run
InitTables ==
  /\ InitMsgTables
  /\ catalogo = <<>>
  /\ source = Unreadable
  /\ lastLoad = NotLoaded
  /\ found = NotSearched
  /\ kw = NoInput

\* the rosters the runs of Spec start with: nobody, the first k employees,
\* and everybody but employee 2
Rosters == {1..k : k \in 0..MaxEmployees} \cup {EmployeeIds \ {2}}

\* router.js is loaded over a new database: no assignment yet
Init ==
  /\ lastAssignedIndex = -1
  /\ \E roster \in Rosters :
       employees = [e \in EmployeeIds |->
                      [is_active |-> e \in roster, assignments_count |-> 0]]
  /\ clients = [p \in Phones |-> "none"]
  /\ conversations = [p \in Phones |-> <<>>]
  /\ InitTables

assignClient(c) ==
  /\ Len(assignments) < MaxRows
  /\ LET r == assignClientResult(lastAssignedIndex, assignments, employees, c)
     IN /\ lastAssignedIndex' = r.idx
        /\ assignments' = r.rows
        /\ employees' = r.emps
        /\ returned' = [client |-> c, result |-> r.result]
  /\ UNCHANGED <<clients, conversations, recovered, msgVars, searchVars>>

closeAssignment(c) ==
  /\ IF getActiveAssignment(assignments, c) = 0
     THEN UNCHANGED <<assignments, clients>>
     ELSE /\ assignments' = completeActive(assignments, c)
          /\ clients' = setClientStatus(clients, c, "completed")
  /\ UNCHANGED <<lastAssignedIndex, employees, conversations, returned, recovered, searchVars, msgVars>>

resetClient(c) ==
  /\ conversations' = [conversations EXCEPT ![c] = <<>>]
  /\ assignments' = completeActive(assignments, c)
  /\ clients' = setClientStatus(clients, c, "new")
  /\ UNCHANGED <<lastAssignedIndex, employees, returned, recovered, searchVars, msgVars>>

initRouter ==
  /\ lastAssignedIndex' = initRouterIndex(lastAssignedIndex, employees)
  /\ UNCHANGED <<employees, assignments, clients, conversations, returned, recovered, searchVars, msgVars>>

Next ==
  \/ \E c \in ClientPhones : assignClient(c)
  \/ \E c \in ClientPhones : closeAssignment(c)
  \/ \E c \in ClientPhones : resetClient(c)
  \/ initRouter

Spec == Init /\ [][Next]_vars

\* ------------------------------------------------------ the roster changes

\* upsertEmployee(name, phone) for the phone of employee e: is_active = 1
upsertEmployee(e) ==
  /\ employees' = [employees EXCEPT ![e].is_active = TRUE]
  /\ UNCHANGED <<lastAssignedIndex, assignments, clients, conversations, returned, recovered,
                 searchVars, msgVars>>

\* the column is_active of employee e is set to 0 in the database file; no
\* function of db.js does it
deactivate(e) ==
  /\ employees[e].is_active
  /\ employees' = [employees EXCEPT ![e].is_active = FALSE]
  /\ UNCHANGED <<lastAssignedIndex, assignments, clients, conversations, returned, recovered,
                 searchVars, msgVars>>

\* the clients of the runs with roster changes
RosterClients == {1, 2}

NextRoster ==
  \/ \E c \in RosterClients : assignClient(c)
  \/ \E c \in RosterClients : closeAssignment(c)
  \/ \E e \in EmployeeIds : upsertEmployee(e)
  \/ \E e \in EmployeeIds : deactivate(e)

SpecRoster == Init /\ [][NextRoster]_vars

\* ------------------------------------------------------------ the restarts

\* the agent the next new assignment goes to with the cursor at idx, 0 for none
nextAgent(idx, emps) ==
  LET roster == getActiveEmployees(emps)
  IN IF Len(roster) = 0 THEN 0 ELSE roster[((idx + 1) % Len(roster)) + 1]

\* the process starts again: router.js is loaded (the cursor is -1) and
\* index.js calls initRouter over the employees table
restart ==
  /\ lastAssignedIndex' = initRouterIndex(-1, employees)
  /\ recovered' = [rows |-> Len(assignments), next |-> nextAgent(lastAssignedIndex, employees)]
  /\ UNCHANGED <<employees, assignments, clients, conversations, returned, searchVars, msgVars>>

\* the counts a database of earlier runs may hold
StartCounts == [EmployeeIds -> 0..MaxStartCount]

\* router.js is loaded over a database that may hold counts of earlier runs
InitRestart ==
  /\ lastAssignedIndex = -1
  /\ \E roster \in Rosters, counts \in StartCounts :
       employees = [e \in EmployeeIds |->
                      [is_active |-> e \in roster, assignments_count |-> counts[e]]]
  /\ clients = [p \in Phones |-> "none"]
  /\ conversations = [p \in Phones |-> <<>>]
  /\ InitTables

NextRestart ==
  \/ restart
  \/ \E c \in ClientPhones : assignClient(c)

SpecRestart == InitRestart /\ [][NextRestart]_vars

\* ------------------------------------------ the steps of a message handler

\* client.on('message'): a message is delivered and its handler starts.  The
\* messages are text messages of individual chats (none of the early returns
\* of lines 131-142 applies, msg.hasMedia is false) and their senders are not
\* administrators, auditors or employees.
Receive(senders, names, bodies, maxInFlight, maxMessages) ==
  /\ received < maxMessages
  /\ Cardinality(InFlight) < maxInFlight
  /\ \E from \in senders, chatName \in names, body \in bodies :
       LET h == CHOOSE x \in DOMAIN handlers :
                  handlers[x].pc = "idle" /\ \A y \in DOMAIN handlers :
                                               handlers[y].pc = "idle" => x <= y
       IN handlers' = [handlers EXCEPT ![h] = newHandler(from, chatName, body)]
  /\ received' = received + 1
  /\ UNCHANGED <<dbVars, returned, recovered, searchVars, done, tracker, now, arrivals>>

\* a message that is not text arrives, without a caption
ReceiveMedia(senders, names, types, maxInFlight, maxMessages) ==
  /\ received < maxMessages
  /\ Cardinality(InFlight) < maxInFlight
  /\ \E from \in senders, chatName \in names, type \in types :
       LET h == CHOOSE x \in DOMAIN handlers :
                  handlers[x].pc = "idle" /\ \A y \in DOMAIN handlers :
                                               handlers[y].pc = "idle" => x <= y
       IN handlers' = [handlers EXCEPT ![h] = newMedia(from, chatName, type)]
  /\ received' = received + 1
  /\ UNCHANGED <<dbVars, returned, recovered, searchVars, done, tracker, now, arrivals>>

\* the handler goes on at pc on the branch path
goOn(h, m, pc, path) ==
  /\ handlers' = [handlers EXCEPT ![h] = [m EXCEPT !.pc = pc, !.path = path]]
  /\ UNCHANGED done

\* handleAdminCommand, lines 1001-1003 and 1153-1180: the tables after !reset
\* and !close, which write before their reply is sent; the other commands of
\* the runs only read
handleAdminCommand(body, rows, cl, conv) ==
  LET cmd == trim(toLowerCase(messageBody[body]))
      parts == split(collapseSpaces(messageBody[body]), " ")
      targetPhone == IF Len(parts) >= 2 THEN trim(parts[2]) ELSE <<>>
      known == {p \in Phones : senderRaw(p) = targetPhone}
      same == [assignments |-> rows, clients |-> cl, conversations |-> conv]
  IN IF startsWith(cmd, Chars["!reset "])
     THEN IF targetPhone = <<>> \/ \A p \in known : cl[p] = "none"
          THEN same
          ELSE LET p == CHOOSE x \in known : TRUE
               IN [assignments |-> completeActive(rows, p),
                   clients |-> setClientStatus(cl, p, "new"),
                   conversations |-> [conv EXCEPT ![p] = <<>>]]
     ELSE IF startsWith(cmd, Chars["!close "]) \/ startsWith(cmd, Chars["!cerrar "])
     THEN IF targetPhone = <<>> \/ \A p \in known : getActiveAssignment(rows, p) = 0
          THEN same
          ELSE LET p == CHOOSE x \in known : TRUE
               IN [assignments |-> completeActive(rows, p),
                   clients |-> setClientStatus(cl, p, "completed"),
                   conversations |-> conv]
     ELSE same

\* the tables after the step of lines 139-347: only a command of an
\* administrator (lines 322-326) writes them before the next await
tablesAfter(m, dispatched) ==
  IF /\ dispatched
     /\ m.type = "chat"
     /\ messageBody[m.body] # <<>>
     /\ isAdmin(m.from)
     /\ startsWith(messageBody[m.body], <<"!">>)
  THEN handleAdminCommand(m.body, assignments, clients, conversations)
  ELSE [assignments |-> assignments, clients |-> clients, conversations |-> conversations]

\* lines 212-347: the media branch, the empty text, the staff, the client
dispatch(h, m) ==
  IF m.type # "chat"
  THEN IF getEmployeeByPhone(m.from) # 0 \/ isAuditor(m.from)
       THEN finish(h, [m EXCEPT !.path = "staffMedia"])
       ELSE IF m.type = "sticker" THEN finish(h, [m EXCEPT !.path = "sticker"])
       ELSE IF m.type = "image" THEN goOn(h, m, "downloadMedia", "image")
       ELSE goOn(h, [m EXCEPT !.effects = @ \cup {"replyMedia"}], "replyMedia", "media")
  ELSE IF messageBody[m.body] = <<>> THEN finish(h, [m EXCEPT !.path = "empty"])
  ELSE IF isAdmin(m.from) /\ startsWith(messageBody[m.body], <<"!">>)
  THEN goOn(h, [m EXCEPT !.effects = @ \cup {"adminReply"}], "adminCommand", "admin")
  ELSE IF isAuditor(m.from) THEN finish(h, [m EXCEPT !.path = "auditor"])
  ELSE IF getEmployeeByPhone(m.from) # 0 THEN finish(h, [m EXCEPT !.path = "employee"])
  ELSE goOn(h, m, "getContact", "client")

\* Faulty variant of the filters: the anti-bot filter of lines 147-197 is
\* missing, the handler goes straight to the anti-loop step (C6 must reject it).
FilterStep_noAntiBot(h) ==
  LET m0 == handlers[h]
      m == [m0 EXCEPT !.seq = Len(arrivals[m0.from]) + 1]
      stamps == trackMessage(tracker[m.from], now)
  IN /\ m.pc = "getChat"
     /\ tracker' = [tracker EXCEPT ![m.from] = stamps]
     /\ arrivals' = [arrivals EXCEPT ![m.from] = Append(@, [t |-> now, tracked |-> TRUE])]
     /\ IF isLoop(stamps)
        THEN finish(h, [m EXCEPT !.path = "loop"])
        ELSE dispatch(h, m)
     /\ LET db == tablesAfter(m, ~isLoop(stamps))
        IN /\ assignments' = db.assignments
           /\ clients' = db.clients
           /\ conversations' = db.conversations
     /\ UNCHANGED <<lastAssignedIndex, employees, returned, recovered, searchVars, now, received>>

\* lines 139-347, from the return of getChat to the next await
FilterStep(h) ==
  LET m0 == handlers[h]
      m == [m0 EXCEPT !.seq = Len(arrivals[m0.from]) + 1]
      stamps == trackMessage(tracker[m.from], now)
  IN /\ m.pc = "getChat"
     /\ IF isBlocked(m.from, m.name, m.body)
        THEN /\ finish(h, [m EXCEPT !.path = "blocked"])
             /\ arrivals' = [arrivals EXCEPT ![m.from] = Append(@, [t |-> now, tracked |-> FALSE])]
             /\ UNCHANGED tracker
        ELSE /\ tracker' = [tracker EXCEPT ![m.from] = stamps]
             /\ arrivals' = [arrivals EXCEPT ![m.from] = Append(@, [t |-> now, tracked |-> TRUE])]
             /\ IF isLoop(stamps)
                THEN finish(h, [m EXCEPT !.path = "loop"])
                ELSE dispatch(h, m)
     /\ LET db == tablesAfter(m, ~isBlocked(m.from, m.name, m.body) /\ ~isLoop(stamps))
        IN /\ assignments' = db.assignments
           /\ clients' = db.clients
           /\ conversations' = db.conversations
     /\ UNCHANGED <<lastAssignedIndex, employees, returned, recovered, searchVars, now, received>>

\* handleClientMessage, lines 370-396: register the client, save the message
ContactStep(h) ==
  LET m == handlers[h]
      isNewClient == clients[m.from] = "none"
      saved == Append(conversations[m.from], "user")
  IN /\ m.pc = "getContact"
     /\ clients' = IF isNewClient THEN [clients EXCEPT ![m.from] = "new"] ELSE clients
     /\ conversations' = [conversations EXCEPT ![m.from] = saved]
     /\ handlers' = [handlers EXCEPT ![h] =
          [m EXCEPT !.pc = "typing",
                    !.history = getConversationHistory(saved, HistoryLimit),
                    !.priorPairs = countPairs(conversations[m.from]),
                    !.effects = @ \cup {"saveMessage"} \cup
                                (IF isNewClient THEN {"upsertClient"} ELSE {})]]
     /\ UNCHANGED <<lastAssignedIndex, employees, assignments, returned, recovered, searchVars, done,
                    tracker, now, arrivals, received>>

\* handleClientMessage, lines 398-417: derive to an employee or call the AI;
\* handleHandoff up to its first msg.reply, getClaudeResponse up to axios.post
DecideStep(h) ==
  LET m == handlers[h]
      r == assignClientResult(lastAssignedIndex, assignments, employees, m.from)
  IN /\ m.pc = "typing"
     /\ IF derivesToEmployee(m.body, m.history)
        THEN /\ lastAssignedIndex' = r.idx
             /\ assignments' = r.rows
             /\ employees' = r.emps
             /\ handlers' = [handlers EXCEPT ![h] =
                  [m EXCEPT !.path = "handoff",
                            !.assignment = r.result,
                            !.pc = IF r.result = 0 THEN "replyNoAdvisors" ELSE "replyHandoff",
                            !.effects = @ \cup {"assignClient"}
                                          \cup (IF r.isNew THEN {"createAssignment"} ELSE {})
                                          \cup (IF r.result = 0 THEN {"replyNoAdvisors"}
                                                ELSE {"replyHandoff"})]]
        ELSE /\ handlers' = [handlers EXCEPT ![h] =
                  [m EXCEPT !.path = "ai", !.pc = "aiCall", !.attempt = 1,
                            !.effects = @ \cup {"aiCall"}]]
             /\ UNCHANGED <<lastAssignedIndex, assignments, employees>>
     /\ UNCHANGED <<clients, conversations, returned, recovered, searchVars, done, tracker, now, arrivals, received>>

\* Faulty variant of handleHandoff: the return of line 628 is missing, the
\* handler goes on as if an employee had been assigned (C5 must reject it).
ReplyNoAdvisors_noReturn(h) ==
  LET m == handlers[h]
  IN /\ m.pc = "replyNoAdvisors"
     /\ conversations' = [conversations EXCEPT ![m.from] = Append(@, "system")]
     /\ clients' = [clients EXCEPT ![m.from] = "assigned"]
     /\ handlers' = [handlers EXCEPT ![h] =
          [m EXCEPT !.pc = "getNumberId", !.effects = @ \cup {"setAssigned"}]]
     /\ UNCHANGED <<lastAssignedIndex, employees, assignments, returned, recovered, searchVars, done,
                    tracker, now, arrivals, received>>

\* handleHandoff, lines 624-628: the "no advisors" reply was sent (or failed)
ReplyNoAdvisorsDone(h) ==
  /\ handlers[h].pc = "replyNoAdvisors"
  /\ finish(h, handlers[h])
  /\ UNCHANGED <<dbVars, returned, recovered, searchVars, tracker, now, arrivals, received>>

\* handleHandoff, lines 646-676: after the reply to the client
ReplyHandoffDone(h) ==
  LET m == handlers[h]
  IN /\ m.pc = "replyHandoff"
     /\ \E ok \in BOOLEAN :
          IF ok
          THEN /\ conversations' = [conversations EXCEPT ![m.from] = Append(@, "system")]
               /\ clients' = [clients EXCEPT ![m.from] = "assigned"]
               /\ handlers' = [handlers EXCEPT ![h] =
                    [m EXCEPT !.pc = "getNumberId", !.effects = @ \cup {"setAssigned"}]]
               /\ UNCHANGED done
          ELSE \* msg.reply rejected: the exception ends the handler at line 349
               /\ finish(h, [m EXCEPT !.failed = TRUE])
               /\ UNCHANGED <<clients, conversations>>
     /\ UNCHANGED <<lastAssignedIndex, employees, assignments, returned, recovered, searchVars,
                    tracker, now, arrivals, received>>

\* handleHandoff, lines 676-688 and the catch of line 690
NumberIdDone(h) ==
  LET m == handlers[h]
  IN /\ m.pc = "getNumberId"
     /\ \E outcome \in {"id", "null", "throws"} :
          CASE outcome = "id" ->
                 /\ handlers' = [handlers EXCEPT ![h] =
                      [m EXCEPT !.pc = "sendNotification", !.effects = @ \cup {"notify"}]]
                 /\ UNCHANGED done
            [] outcome = "null" -> finish(h, m)
            [] outcome = "throws" ->
                 /\ handlers' = [handlers EXCEPT ![h] =
                      [m EXCEPT !.pc = "sendFallback", !.effects = @ \cup {"notify"}]]
                 /\ UNCHANGED done
     /\ UNCHANGED <<dbVars, returned, recovered, searchVars, tracker, now, arrivals, received>>

\* handleHandoff, lines 688-697: the notification was sent, or the fallback starts
SendNotificationDone(h) ==
  LET m == handlers[h]
  IN /\ m.pc = "sendNotification"
     /\ \E ok \in BOOLEAN :
          IF ok THEN finish(h, m)
          ELSE /\ handlers' = [handlers EXCEPT ![h] = [m EXCEPT !.pc = "sendFallback"]]
               /\ UNCHANGED done
     /\ UNCHANGED <<dbVars, returned, recovered, searchVars, tracker, now, arrivals, received>>

\* handleHandoff, lines 697-702: the fallback send ended either way
SendFallbackDone(h) ==
  /\ handlers[h].pc = "sendFallback"
  /\ finish(h, handlers[h])
  /\ UNCHANGED <<dbVars, returned, recovered, searchVars, tracker, now, arrivals, received>>

MAX_RETRIES == 3

\* the reply is saved and sent: handleClientMessage, lines 419-424
sendAiReply(h, m, response) ==
  /\ conversations' = [conversations EXCEPT ![m.from] = Append(@, "assistant")]
  /\ handlers' = [handlers EXCEPT ![h] =
       [m EXCEPT !.pc = "replyAi", !.response = response, !.effects = @ \cup {"replyAi"}]]
  /\ UNCHANGED done

\* what one attempt of axios.post may end with: a text, an empty text, an error
AiOutcomes == {"ok", "empty", "error"}

\* retryError.response?.status of an error without a response (a timeout)
NoStatus == 0
\* the statuses of the errors of the runs of SpecMsg
MsgStatuses == {400, 503}

\* Faulty variant of the test: 429 ends the attempts like any other 4xx
\* (C27 must reject it).
noRetry_rateLimit(status) == status # NoStatus /\ status >= 400 /\ status < 500

\* status && status >= 400 && status < 500 && status !== 429: the loop breaks
noRetry(status) ==
  status # NoStatus /\ status >= 400 /\ status < 500 /\ status # 429

\* Faulty variant of the backoff: every wait is 2 s (C11 must reject it).
backoff_constant(attempt) == 2000

\* const wait = attempt * 2000, in milliseconds
backoff(attempt) == attempt * 2000

\* getClaudeResponse, lines 788-831: one attempt of axios.post ended
AiCallDone(h, outcomes, statuses) ==
  LET m == handlers[h]
  IN /\ m.pc = "aiCall"
     /\ \E outcome \in outcomes :
          CASE outcome = "ok" -> sendAiReply(h, m, "reply")
            [] outcome = "empty" -> \* an empty text: `if (response)` skips the reply
                 /\ finish(h, m)
                 /\ UNCHANGED conversations
            [] outcome = "error" ->
                 \E status \in statuses :
                   LET e == [m EXCEPT !.errors = @ + 1, !.statuses = Append(@, status)]
                   IN IF noRetry(status) THEN sendAiReply(h, e, "apology")
                      ELSE IF m.attempt < MAX_RETRIES
                      THEN /\ handlers' = [handlers EXCEPT ![h] =
                                [e EXCEPT !.pc = "aiWait",
                                          !.waits = Append(@, backoff(m.attempt))]]
                           /\ UNCHANGED <<conversations, done>>
                      ELSE sendAiReply(h, e, "apology")
     /\ UNCHANGED <<lastAssignedIndex, employees, assignments, clients, returned, recovered, searchVars,
                    tracker, now, arrivals, received>>

\* getClaudeResponse, line 822: the backoff wait ended, the next attempt starts
AiWaitDone(h) ==
  LET m == handlers[h]
  IN /\ m.pc = "aiWait"
     /\ handlers' = [handlers EXCEPT ![h] = [m EXCEPT !.pc = "aiCall", !.attempt = @ + 1]]
     /\ UNCHANGED <<dbVars, returned, recovered, searchVars, done, tracker, now, arrivals, received>>

\* handleClientMessage, lines 424-430: msg.reply ended
ReplyAiDone(h) ==
  /\ handlers[h].pc = "replyAi"
  /\ finish(h, handlers[h])
  /\ UNCHANGED <<dbVars, returned, recovered, searchVars, tracker, now, arrivals, received>>

\* the catch of line 296: the handler replies that the image failed
imageFailed(h, m) ==
  handlers' = [handlers EXCEPT ![h] =
     [m EXCEPT !.pc = "replyImageError", !.failed = TRUE,
               !.effects = @ \cup {"replyImageError"}]]

\* lines 235-240: msg.downloadMedia() ended
DownloadDone(h, outcomes) ==
  LET m == handlers[h]
  IN /\ m.pc = "downloadMedia"
     /\ \E outcome \in outcomes :
          CASE outcome = "image" -> \* the history is read, the vision call starts
                 /\ handlers' = [handlers EXCEPT ![h] =
                      [m EXCEPT !.pc = "vision", !.effects = @ \cup {"aiCall"},
                                !.history = getConversationHistory(conversations[m.from], 6)]]
                 /\ UNCHANGED done
            [] outcome = "notImage" -> finish(h, m)  \* no media, or not an image/ type
            [] outcome = "throws" -> imageFailed(h, m) /\ UNCHANGED done
     /\ UNCHANGED <<dbVars, returned, recovered, searchVars, tracker, now, arrivals, received>>

\* lines 269-288: the axios.post of the image ended
VisionDone(h, outcomes) ==
  LET m == handlers[h]
  IN /\ m.pc = "vision"
     /\ \E outcome \in outcomes :
          CASE outcome = "ok" ->
                 handlers' = [handlers EXCEPT ![h] =
                    [m EXCEPT !.pc = "replyImage", !.response = "reply",
                              !.effects = @ \cup {"replyImage"}]]
            [] outcome = "throws" -> imageFailed(h, m)
     /\ UNCHANGED <<dbVars, returned, recovered, searchVars, done, tracker, now, arrivals, received>>

\* lines 288-299: msg.reply(reply) ended; after the two saveMessage calls,
\* db.updateClientInteraction is not a function of the db module and throws
ReplyImageDone(h, outcomes) ==
  LET m == handlers[h]
  IN /\ m.pc = "replyImage"
     /\ \E outcome \in outcomes :
          CASE outcome = "ok" ->
                 /\ conversations' = [conversations EXCEPT ![m.from] = @ \o <<"user", "assistant">>]
                 /\ imageFailed(h, [m EXCEPT !.effects = @ \cup {"saveMessage"}])
            [] outcome = "throws" ->
                 /\ imageFailed(h, m)
                 /\ UNCHANGED conversations
     /\ UNCHANGED <<lastAssignedIndex, employees, assignments, clients, returned, recovered,
                    searchVars, done, tracker, now, arrivals, received>>

\* lines 298-300: the reply of the catch ended
ReplyImageErrorDone(h) ==
  /\ handlers[h].pc = "replyImageError"
  /\ finish(h, handlers[h])
  /\ UNCHANGED <<dbVars, returned, recovered, searchVars, tracker, now, arrivals, received>>

\* lines 311-313: the reply to an audio, a video or a document ended
ReplyMediaDone(h) ==
  /\ handlers[h].pc = "replyMedia"
  /\ finish(h, handlers[h])
  /\ UNCHANGED <<dbVars, returned, recovered, searchVars, tracker, now, arrivals, received>>

\* handleAdminCommand, lines 1006-1017, 1166 and 1179: the reply to the
\* command ended
AdminCommandDone(h) ==
  /\ handlers[h].pc = "adminCommand"
  /\ finish(h, handlers[h])
  /\ UNCHANGED <<dbVars, returned, recovered, searchVars, tracker, now, arrivals, received>>

\* --------------------------------------------------- the message handling

\* the rosters the runs of SpecMsg start with
MsgRosters == {{}, {1, 3}}

RECURSIVE Exchanges(_)
\* the conversation k answered messages leave in the table
Exchanges(k) == IF k = 0 THEN <<>> ELSE Exchanges(k - 1) \o <<"user", "assistant">>

\* the bot has started (initRouter has run); client 1 may have talked to it before
InitMsg ==
  /\ \E roster \in MsgRosters :
       employees = [e \in EmployeeIds |->
                      [is_active |-> e \in roster, assignments_count |-> 0]]
  /\ lastAssignedIndex = initRouterIndex(-1, employees)
  /\ \E k \in 0..MaxPairs :
       /\ conversations = [p \in Phones |-> IF p = 1 THEN Exchanges(k) ELSE <<>>]
       /\ clients = [p \in Phones |-> IF p = 1 /\ k > 0 THEN "new" ELSE "none"]
  /\ InitTables

NextMsg ==
  \/ Receive(MsgSenders, MsgNames, MsgBodies, MaxInFlight, MaxMsgs)
  \/ \E h \in 1..MaxInFlight : FilterStep(h)
  \/ \E h \in 1..MaxInFlight : ContactStep(h)
  \/ \E h \in 1..MaxInFlight : DecideStep(h)
  \/ \E h \in 1..MaxInFlight : ReplyNoAdvisorsDone(h)
  \/ \E h \in 1..MaxInFlight : ReplyHandoffDone(h)
  \/ \E h \in 1..MaxInFlight : NumberIdDone(h)
  \/ \E h \in 1..MaxInFlight : SendNotificationDone(h)
  \/ \E h \in 1..MaxInFlight : SendFallbackDone(h)
  \/ \E h \in 1..MaxInFlight : AiCallDone(h, AiOutcomes, MsgStatuses)
  \/ \E h \in 1..MaxInFlight : AiWaitDone(h)
  \/ \E h \in 1..MaxInFlight : ReplyAiDone(h)

SpecMsg == InitMsg /\ [][NextMsg]_vars

\* ----------------------------------------------------------- the inbox

\* a client, the auditor and employee 2 write; the rosters of the runs
InboxSenders == {1, AuditorPhone, EmployeePhone(2)}
InboxRosters == {{}, {1, 3}, {1, 2, 3}}

InitInbox ==
  /\ \E roster \in InboxRosters :
       employees = [e \in EmployeeIds |->
                      [is_active |-> e \in roster, assignments_count |-> 0]]
  /\ lastAssignedIndex = initRouterIndex(-1, employees)
  /\ conversations = [p \in Phones |-> <<>>]
  /\ clients = [p \in Phones |-> "none"]
  /\ InitTables

\* texts, blanks, commands, images, stickers and voice notes come in
NextInbox ==
  \/ Receive(InboxSenders, {"Juan Perez"}, InboxBodies, MaxInFlight, MaxInboxMsgs)
  \/ ReceiveMedia(InboxSenders, {"Juan Perez"}, MediaTypes, MaxInFlight, MaxInboxMsgs)
  \/ \E h \in 1..MaxInFlight : FilterStep(h)
  \/ \E h \in 1..MaxInFlight : ContactStep(h)
  \/ \E h \in 1..MaxInFlight : DecideStep(h)
  \/ \E h \in 1..MaxInFlight : ReplyNoAdvisorsDone(h)
  \/ \E h \in 1..MaxInFlight : ReplyHandoffDone(h)
  \/ \E h \in 1..MaxInFlight : NumberIdDone(h)
  \/ \E h \in 1..MaxInFlight : SendNotificationDone(h)
  \/ \E h \in 1..MaxInFlight : SendFallbackDone(h)
  \/ \E h \in 1..MaxInFlight : AiCallDone(h, {"ok"}, {})
  \/ \E h \in 1..MaxInFlight : ReplyAiDone(h)
  \/ \E h \in 1..MaxInFlight : DownloadDone(h, {"image", "notImage", "throws"})
  \/ \E h \in 1..MaxInFlight : VisionDone(h, {"ok", "throws"})
  \/ \E h \in 1..MaxInFlight : ReplyImageDone(h, {"ok", "throws"})
  \/ \E h \in 1..MaxInFlight : ReplyImageErrorDone(h)
  \/ \E h \in 1..MaxInFlight : ReplyMediaDone(h)
  \/ \E h \in 1..MaxInFlight : AdminCommandDone(h)

SpecInbox == InitInbox /\ [][NextInbox]_vars

\* ------------------------------------------------- the concurrent handoffs


HandoffSenders == {1, 2, 3}
\* the rosters the runs of SpecHandoff start with, none of them empty
HandoffRosters == {{1, 3}, {1, 2, 3}}

\* the bot has started over a database in which one employee of the roster may
\* have assignments of earlier runs (initRouter has placed the cursor)
InitHandoff ==
  /\ \E roster \in HandoffRosters :
       \E busy \in roster \cup {0} :
         employees = [e \in EmployeeIds |->
                        [is_active |-> e \in roster,
                         assignments_count |-> IF e = busy THEN MaxStartCount ELSE 0]]
  /\ lastAssignedIndex = initRouterIndex(-1, employees)
  /\ conversations = [p \in Phones |-> <<>>]
  /\ clients = [p \in Phones |-> "none"]
  /\ InitTables

\* clients that have no assignment ask for a person, several at a time
NextHandoff ==
  \/ Receive(HandoffSenders, {"Juan Perez"}, {"Necesito atencio'n humana!"},
             MaxInFlight, MaxHandoffMsgs)
  \/ \E h \in 1..MaxInFlight : FilterStep(h)
  \/ \E h \in 1..MaxInFlight : ContactStep(h)
  \/ \E h \in 1..MaxInFlight : DecideStep(h)
  \/ \E h \in 1..MaxInFlight : ReplyHandoffDone(h)
  \/ \E h \in 1..MaxInFlight : NumberIdDone(h)
  \/ \E h \in 1..MaxInFlight : SendNotificationDone(h)
  \/ \E h \in 1..MaxInFlight : SendFallbackDone(h)

SpecHandoff == InitHandoff /\ [][NextHandoff]_vars

\* ------------------------------------------- the commands during a handoff

MaxAdminMsgs == 3
AdminClients == {1, 2}

\* clients ask for a person while an auditor closes or resets client 1
NextAdmin ==
  \/ Receive(AdminClients, {"Juan Perez"}, {"Necesito atencio'n humana!"},
             MaxInFlight, MaxAdminMsgs)
  \/ Receive(auditors, {"Juan Perez"}, AdminBodies, MaxInFlight, MaxAdminMsgs)
  \/ \E h \in 1..MaxInFlight : FilterStep(h)
  \/ \E h \in 1..MaxInFlight : ContactStep(h)
  \/ \E h \in 1..MaxInFlight : DecideStep(h)
  \/ \E h \in 1..MaxInFlight : ReplyHandoffDone(h)
  \/ \E h \in 1..MaxInFlight : NumberIdDone(h)
  \/ \E h \in 1..MaxInFlight : SendNotificationDone(h)
  \/ \E h \in 1..MaxInFlight : SendFallbackDone(h)
  \/ \E h \in 1..MaxInFlight : AdminCommandDone(h)

SpecAdmin == InitHandoff /\ [][NextAdmin]_vars

\* ------------------------------------------- the handoffs that run to an end

MaxNotifyMsgs == 2
NotifySenders == {1, 2}

NextNotify ==
  \/ Receive(NotifySenders, {"Juan Perez"}, {"Necesito atencio'n humana!"},
             MaxInFlight, MaxNotifyMsgs)
  \/ \E h \in 1..MaxInFlight : FilterStep(h)
  \/ \E h \in 1..MaxInFlight : ContactStep(h)
  \/ \E h \in 1..MaxInFlight : DecideStep(h)
  \/ \E h \in 1..MaxInFlight : ReplyHandoffDone(h)
  \/ \E h \in 1..MaxInFlight : NumberIdDone(h)
  \/ \E h \in 1..MaxInFlight : SendNotificationDone(h)
  \/ \E h \in 1..MaxInFlight : SendFallbackDone(h)

\* every promise a handler awaits (getChat, getContact, msg.reply, getNumberId,
\* sendMessage) is settled, fulfilled or rejected, and the event loop then
\* resumes the handler: no handler stays suspended for ever
HandlersResume ==
  \A h \in 1..MaxInFlight :
    /\ WF_vars(FilterStep(h))
    /\ WF_vars(ContactStep(h))
    /\ WF_vars(DecideStep(h))
    /\ WF_vars(ReplyHandoffDone(h))
    /\ WF_vars(NumberIdDone(h))
    /\ WF_vars(SendNotificationDone(h))
    /\ WF_vars(SendFallbackDone(h))

SpecNotify == InitHandoff /\ [][NextNotify]_vars /\ HandlersResume

\* ------------------------------------------------------------ the anti-loop

\* the clock advances by half a window at a time
TickMs == WindowMs \div 2

Tick ==
  /\ now < MaxTicks * TickMs
  /\ now' = now + TickMs
  /\ UNCHANGED <<dbVars, returned, recovered, searchVars, handlers, done, tracker, arrivals, received>>

\* the messages of sender 1 that the anti-bot filter dropped
Untracked == {i \in 1..Len(arrivals[1]) : ~arrivals[1][i].tracked}

InitLoop ==
  /\ employees = [e \in EmployeeIds |-> [is_active |-> TRUE, assignments_count |-> 0]]
  /\ lastAssignedIndex = initRouterIndex(-1, employees)
  /\ conversations = [p \in Phones |-> <<>>]
  /\ clients = [p \in Phones |-> "none"]
  /\ InitTables

\* one client writes again and again, one handler at a time, and the AI answers
NextLoop ==
  \/ Receive({1}, {"Juan Perez"}, {"hola"}, 1, MaxLoopMsgs)
  \/ /\ Cardinality(Untracked) < MaxBotMsgs
     /\ Receive({1}, {"Juan Perez"}, {"tu codigo de verificacion es 4821"}, 1, MaxLoopMsgs)
  \/ Tick
  \/ FilterStep(1)
  \/ ContactStep(1)
  \/ DecideStep(1)
  \/ AiCallDone(1, {"ok"}, {})
  \/ ReplyAiDone(1)

SpecLoop == InitLoop /\ [][NextLoop]_vars

\* ------------------------------------------------------ the backend errors

\* the statuses of the errors of the runs: none, 4xx, 429, 5xx
RetryStatuses == {NoStatus, 400, 404, 429, 499, 500, 503}

\* a client writes, one message at a time, and the backend fails in every way
NextRetry ==
  \/ Receive({1}, {"Juan Perez"}, {"hola"}, 1, MaxRetryMsgs)
  \/ FilterStep(1)
  \/ ContactStep(1)
  \/ DecideStep(1)
  \/ AiCallDone(1, {"ok", "error"}, RetryStatuses)
  \/ AiWaitDone(1)
  \/ ReplyAiDone(1)

SpecRetry == InitLoop /\ [][NextRetry]_vars

\* ------------------------------------------------- the catalog and the search

\* the catalog file is rewritten (build_context.js) or damaged
WriteSource(file) ==
  /\ source # file
  /\ source' = file
  /\ UNCHANGED <<catalogo, lastLoad, found, kw, dbVars, returned, recovered, msgVars>>

\* search.loadCatalog(): index.js at start-up, or any caller of the export
loadCatalog ==
  LET r == loadCatalogResult(catalogo, source)
  IN  /\ catalogo' = r.catalogo
      /\ lastLoad' = [before |-> catalogo, failed |-> r.failed]
      /\ UNCHANGED <<source, found, kw, dbVars, returned, recovered, msgVars>>

\* search.searchProducts(message, maxResults): an empty catalog is loaded first
searchProducts(message, maxResults) ==
  LET reload == Len(catalogo) = 0
      r == loadCatalogResult(catalogo, source)
      list == IF reload THEN r.catalogo ELSE catalogo
  IN  /\ catalogo' = list
      /\ lastLoad' = IF reload THEN [before |-> catalogo, failed |-> r.failed] ELSE lastLoad
      /\ found' = [message |-> message, maxResults |-> maxResults, seen |-> list,
                   result |-> IF extractThrows(SearchText[message]) THEN Thrown
                              ELSE searchResult(list, SearchText[message], maxResults)]
      /\ UNCHANGED <<source, kw, dbVars, returned, recovered, msgVars>>

\* the messages the searches are made for
Queries == {"hola", "glock", "Pistola negra!", "Ekol Magnum", "quiero una pistola"}

MaxResultsValues == {DefaultMaxResults, SmallMaxResults}

\* search.js is loaded: let catalogo = []
InitSearch ==
  /\ employees = [e \in EmployeeIds |-> [is_active |-> TRUE, assignments_count |-> 0]]
  /\ lastAssignedIndex = initRouterIndex(-1, employees)
  /\ conversations = [p \in Phones |-> <<>>]
  /\ clients = [p \in Phones |-> "none"]
  /\ InitMsgTables
  /\ catalogo = <<>>
  /\ source \in Sources
  /\ lastLoad = NotLoaded
  /\ found = NotSearched
  /\ kw = NoInput

NextSearch ==
  \/ \E file \in Sources : WriteSource(file)
  \/ loadCatalog
  \/ \E message \in Queries, maxResults \in MaxResultsValues :
       searchProducts(message, maxResults)

SpecSearch == InitSearch /\ [][NextSearch]_vars

\* the catalog files and the messages of the scoring scenario
ScenarioSources == {ScenarioCatalog, SmallCatalog, Unreadable}
ScenarioQueries == {"cuanto vale la retay negra", "hola", "glock"}

InitScenario ==
  /\ employees = [e \in EmployeeIds |-> [is_active |-> TRUE, assignments_count |-> 0]]
  /\ lastAssignedIndex = initRouterIndex(-1, employees)
  /\ conversations = [p \in Phones |-> <<>>]
  /\ clients = [p \in Phones |-> "none"]
  /\ InitMsgTables
  /\ catalogo = <<>>
  /\ source \in ScenarioSources
  /\ lastLoad = NotLoaded
  /\ found = NotSearched
  /\ kw = NoInput

NextScenario ==
  \/ \E file \in ScenarioSources : WriteSource(file)
  \/ loadCatalog
  \/ \E message \in ScenarioQueries, maxResults \in MaxResultsValues :
       searchProducts(message, maxResults)

SpecScenario == InitScenario /\ [][NextScenario]_vars

\* ------------------------------------------------------------ the keywords

\* inputs that are not a single entry of STOP_WORDS
OtherInputs ==
  {"", " ", "x", "5", "?", "<?", "!", ",", "aqui", "ahi", "podria", "Aqui'", "AHI'",
   "Podri'a", "<?Hola, que tal?", "<!Hola! <?Co'mo esta' usted?", "por favor, x 5",
   "el de la", "Buenos di'as.", "glock", "pistola", "revolver", "barata", "negra",
   "quiero una pistola", "Pistola negra!", "Ekol Magnum", "pistola trauma'tica compacta",
   "constructor", "Una pistola, constructor", "cuanto vale la retay negra"}

KeywordInputs == StopWordKeys \cup OtherInputs

\* extractKeywords(message)
extractStep ==
  /\ kw.pc = "input"
  /\ kw' = IF extractThrows(SearchText[kw.message]) THEN [kw EXCEPT !.pc = "threw"]
           ELSE [kw EXCEPT !.pc = "extracted",
                           !.keywords = extractKeywords(SearchText[kw.message])]
  /\ UNCHANGED <<catalogo, source, lastLoad, found, dbVars, returned, recovered, msgVars>>

\* extractKeywords(keywords.join(' '))
extractAgainStep ==
  /\ kw.pc = "extracted"
  /\ kw' = [kw EXCEPT !.pc = "again", !.again = extractKeywords(join(kw.keywords, <<" ">>))]
  /\ UNCHANGED <<catalogo, source, lastLoad, found, dbVars, returned, recovered, msgVars>>

InitKeywords ==
  /\ employees = [e \in EmployeeIds |-> [is_active |-> TRUE, assignments_count |-> 0]]
  /\ lastAssignedIndex = initRouterIndex(-1, employees)
  /\ conversations = [p \in Phones |-> <<>>]
  /\ clients = [p \in Phones |-> "none"]
  /\ InitMsgTables
  /\ catalogo = <<>>
  /\ source = Unreadable
  /\ lastLoad = NotLoaded
  /\ found = NotSearched
  /\ \E message \in KeywordInputs : kw = [NoInput EXCEPT !.pc = "input", !.message = message]

NextKeywords == extractStep \/ extractAgainStep

SpecKeywords == InitKeywords /\ [][NextKeywords]_vars


\* ============================================================== properties

\* the rows of the assignments table that are active for client c
ActiveRows(c) ==
  {i \in 1..Len(assignments) :
     assignments[i].client_phone = c /\ assignments[i].status = "active"}

\* C1: whatever assignClient, closeAssignment (!close) and resetClient (!reset)
\* calls were made, on any clients, each client has at most one assignment row
\* with status 'active'.
C1_AtMostOneActive == \A c \in Phones : Cardinality(ActiveRows(c)) <= 1

\* a client was assigned, closed and assigned again: one active row, one completed
C1_Witness ==
  \E c \in ClientPhones :
    /\ Cardinality(ActiveRows(c)) = 1
    /\ \E i \in 1..Len(assignments) :
         assignments[i].client_phone = c /\ assignments[i].status = "completed"

\* C2: sticky routing.  An assignClient(c) call made while c has an active
\* assignment returns that assignment and changes nothing: the cursor does not
\* advance, no row is added or completed, no assignments_count changes.
C2_Sticky ==
  [][\A c \in ClientPhones :
       (assignClient(c) /\ getActiveAssignment(assignments, c) # 0)
         => /\ returned'.result = getActiveAssignment(assignments, c)
            /\ UNCHANGED <<lastAssignedIndex, assignments, employees>>]_vars

\* the last assignClient call returned a row that is not the newest one: it was
\* a sticky call, made after other clients were assigned
C2_Witness ==
  /\ returned.result # 0
  /\ returned.result < Len(assignments)
  /\ assignments[returned.result].client_phone = returned.client
  /\ assignments[returned.result].status = "active"

\* how many of the rows from..to went to employee e
RowsOf(e, from, to) ==
  Cardinality({i \in from..to : assignments[i].employee_id = e})

\* C3: fairness.  The roster is fixed; every assignment row was made by one new
\* (non-sticky) assignClient call.  Take any N consecutive new assignments,
\* from any position of the cursor: every active employee got floor(N/K) or
\* ceil(N/K) of them, so two employees differ by at most 1.
C3_Fairness ==
  LET roster == getActiveEmployees(employees)
      K == Len(roster)
  IN \A from \in 1..Len(assignments) : \A to \in from..Len(assignments) :
       LET N == to - from + 1
       IN /\ K > 0
          /\ \A a \in 1..K :
               /\ RowsOf(roster[a], from, to) >= N \div K
               /\ RowsOf(roster[a], from, to) <= (N + K - 1) \div K
               /\ \A b \in 1..K :
                    RowsOf(roster[a], from, to) - RowsOf(roster[b], from, to) <= 1

\* four new assignments among three employees: one of them got two
C3_Witness ==
  /\ Len(getActiveEmployees(employees)) = 3
  /\ Len(assignments) = 4
  /\ \E e \in EmployeeIds : RowsOf(e, 1, 4) = 2
  /\ \A e \in EmployeeIds : RowsOf(e, 1, 4) >= 1

\* C4: rotation order.  With a fixed roster of size K and cursor0 = -1 before
\* the first call, the i-th new assignment goes to roster index
\* (cursor0 + i) mod K and the cursor then equals that index; sticky calls,
\* closes, resets and initRouter do not move it.
C4_RotationOrder ==
  LET roster == getActiveEmployees(employees)
      K == Len(roster)
  IN /\ \A i \in 1..Len(assignments) :
          /\ K > 0
          /\ assignments[i].employee_id = roster[((-1 + i) % K) + 1]
     /\ Len(assignments) > 0 => lastAssignedIndex = (-1 + Len(assignments)) % K
     /\ lastAssignedIndex \in -1..(MaxEmployees - 1)

\* the example: roster [A,B,C], calls for c1, c2, c1 (sticky), c3, c4 gave
\* A, B, C, A and left the cursor at 0
C4_Witness ==
  /\ getActiveEmployees(employees) = <<1, 2, 3>>
  /\ Len(assignments) = 4
  /\ \A i \in 1..4 : assignments[i].client_phone = i /\ assignments[i].status = "active"
  /\ <<assignments[1].employee_id, assignments[2].employee_id,
       assignments[3].employee_id, assignments[4].employee_id>> = <<1, 2, 3, 1>>
  /\ lastAssignedIndex = 0
  /\ returned = [client |-> 4, result |-> 4]

\* the handlers in flight and the one that ended last
Handled ==
  {handlers[h] : h \in InFlight} \cup (IF done.pc = "done" THEN {done} ELSE {})

\* the handlers that are past the anti-bot and anti-loop filters' decision
Filtered == {m \in Handled : m.pc # "getChat"}

\* the handlers that took one branch of handleClientMessage
Decided == {m \in Handled : m.path \in {"handoff", "ai"}}

\* the message asks for a person (humanKeywords) / shows a purchase (buyKeywords only)
AsksForHuman(m) == HumanPhrase[m.body]
OnlyBuys(m) == AnyPhrase[m.body] /\ ~HumanPhrase[m.body]
\* the anti-bot filter matches the message
GateA(m) == isBlocked(m.from, m.name, m.body)

\* C5: with an empty active roster assignClient returns null and leaves the
\* cursor, the assignment rows and the counts as they were; the handoff handler
\* then answers that no advisor is available, notifies no employee and does not
\* set the client's status to 'assigned'.
C5_NoAdvisors ==
  /\ [](\A m \in Decided :
          (m.path = "handoff" /\ m.assignment = 0)
            => /\ Len(getActiveEmployees(employees)) = 0
               /\ m.pc \in {"replyNoAdvisors", "done"}
               /\ "replyNoAdvisors" \in m.effects
               /\ m.effects \cap {"createAssignment", "replyHandoff", "setAssigned", "notify"} = {}
               /\ clients[m.from] # "assigned")
  /\ [][\A h \in 1..MaxInFlight :
          (DecideStep(h) /\ handlers'[h].path = "handoff"
             /\ Len(getActiveEmployees(employees)) = 0)
            => /\ handlers'[h].assignment = 0
               /\ UNCHANGED <<lastAssignedIndex, assignments, employees>>]_vars

\* a client asked for a person while nobody was on the roster, and the handler ended
C5_Witness ==
  /\ done.pc = "done"
  /\ done.path = "handoff"
  /\ done.assignment = 0
  /\ "replyNoAdvisors" \in done.effects
  /\ Len(getActiveEmployees(employees)) = 0

\* C6: gate ordering.  A message from a chat whose name is on the deny-list and
\* whose text asks for a person is suppressed: no assignment, no notification,
\* no reply, nothing else done.  No handler reaches the handoff / AI decision with
\* a message the anti-bot filter matches.
C6_GateOrder ==
  /\ \A m \in Filtered :
       (DenyListed[m.name] /\ AsksForHuman(m))
         => m.pc = "done" /\ m.path = "blocked" /\ m.effects = {}
  /\ \A m \in Decided : ~GateA(m)

\* "Bancolombia" wrote "Necesito atencion humana!" from a mobile line and was dropped
C6_Witness ==
  /\ done.pc = "done"
  /\ done.path = "blocked"
  /\ done.from = 1
  /\ done.name = "Bancolombia"
  /\ done.body = "Necesito atencio'n humana!"
  /\ DenyListed[done.name]
  /\ AsksForHuman(done)
  /\ assignments = <<>>

\* C7: gate B is unconditional.  A client message that passed the filters and
\* asks for a person takes the handoff branch: assignClient is called and no AI
\* reply is made, whatever the stored history, the very first message included.
C7_HumanRequest ==
  \A m \in Decided :
    AsksForHuman(m)
      => /\ m.path = "handoff"
         /\ "assignClient" \in m.effects
         /\ m.effects \cap {"aiCall", "replyAi"} = {}

\* the first message a client ever sent asked for a person and was handed off
C7_Witness ==
  /\ done.pc = "done"
  /\ done.path = "handoff"
  /\ done.body = "Necesito atencio'n humana!"
  /\ AsksForHuman(done)
  /\ done.history = <<"user">>
  /\ done.priorPairs = 0
  /\ done.assignment # 0

\* C8, as the specification states it: a message with a purchase phrase and no
\* request for a person is handed off only if the conversation already holds at
\* least 3 user+assistant exchanges before it; with fewer it gets the AI reply
\* and no assignment.
C8_PurchaseNeedsThreeExchanges ==
  \A m \in Decided :
    OnlyBuys(m) => (m.path = "handoff" => m.priorPairs >= 3)

\* what the code does: it hands off when the last rows of the
\* conversation, the message itself included, are at least 6, whatever their roles
C8_CodeBehaviour ==
  \A m \in Decided :
    OnlyBuys(m) => (m.path = "handoff" <=> Len(m.history) >= MinHistory)

\* a purchase phrase was handed off after fewer than 3 exchanges
C8_Witness ==
  \E m \in Decided : OnlyBuys(m) /\ m.path = "handoff" /\ m.priorPairs < 3

\* C9: when the anti-bot filter matches (deny-listed name, short number or an
\* automated text such as 'tu codigo de verificacion es 4821'), the handler ends
\* there: no reply, no client row created or updated, no message saved, no
\* assignment.  The short code never gets a row in any table.
C9_Suppressed ==
  /\ [](/\ \A m \in Filtered :
            GateA(m) => m.pc = "done" /\ m.path = "blocked" /\ m.effects = {}
        /\ clients[ShortCode] = "none"
        /\ conversations[ShortCode] = <<>>
        /\ tracker[ShortCode] = <<>>
        /\ \A i \in 1..Len(assignments) : assignments[i].client_phone # ShortCode)
  /\ [][\A h \in 1..MaxInFlight :
          (FilterStep(h) /\ GateA(handlers[h]))
            => /\ UNCHANGED <<dbVars, tracker>>
               /\ handlers'[h] = Idle]_vars

\* a client's line sent the verification-code text and the handler dropped it
C9_Witness ==
  /\ done.pc = "done"
  /\ done.path = "blocked"
  /\ done.body = "tu codigo de verificacion es 4821"
  /\ Automated[done.body]
  /\ ~DenyListed[done.name]
  /\ ~ShortNumber[done.from]

\* the tracked messages of m's sender that are less than 5 minutes older than m,
\* m included
InWindow(m) ==
  {i \in 1..m.seq :
     /\ arrivals[m.from][i].tracked
     /\ arrivals[m.from][m.seq].t - arrivals[m.from][i].t < WindowMs}

\* C10: loop suppression.  A message that reached the anti-loop step is dropped
\* (no reply, no record, no escalation) exactly when, counting it, its sender has
\* more than 10 messages timestamped by that step in the preceding 5 minutes; so
\* the first 10 of a window are processed and the 11th is suppressed.
C10_LoopSuppression ==
  \A m \in Filtered :
    m.path # "blocked"
      => /\ (m.path = "loop") <=> (Cardinality(InWindow(m)) > LoopThreshold)
         /\ m.path = "loop" => (m.pc = "done" /\ m.effects = {})

\* the 11th message of a window was dropped after the first 10 were answered
C10_Witness ==
  /\ done.pc = "done"
  /\ done.path = "loop"
  /\ Cardinality(InWindow(done)) = LoopThreshold + 1
  /\ Len(SelectSeq(conversations[done.from], LAMBDA r : r = "assistant")) >= LoopThreshold

\* the handlers that called the AI
AiHandlers == {m \in Handled : m.path = "ai"}

\* C11: getClaudeResponse calls the backend at most 3 times for a message; it
\* waits 2 s after the first failed call and 4 s after the second, and does not
\* wait after the last one; when every call failed it returns the apology text,
\* which is saved and sent like a reply, and nothing is thrown.
C11_Retries ==
  \A m \in AiHandlers :
    /\ m.attempt \in 1..3
    /\ m.waits = SubSeq(<<2000, 4000>>, 1, Len(m.waits))
    /\ m.pc = "aiCall" => (m.errors = m.attempt - 1 /\ Len(m.waits) = m.attempt - 1)
    /\ m.pc = "aiWait" => (m.errors = m.attempt /\ Len(m.waits) = m.attempt)
    /\ m.pc \in {"replyAi", "done"}
         => /\ Len(m.waits) = m.attempt - 1
            /\ m.errors = m.attempt
                 => (m.response = "apology" /\ "replyAi" \in m.effects /\ ~m.failed)

\* three calls failed: two waits, then the apology was sent
C11_Witness ==
  /\ done.pc = "done"
  /\ done.path = "ai"
  /\ done.attempt = 3
  /\ done.errors = 3
  /\ done.waits = <<2000, 4000>>
  /\ done.response = "apology"

\* ------------------------------------------------- properties of the catalog

\* C12: a loadCatalog call that failed (unreadable or malformed source, or a
\* failure part-way through building the list) left the in-memory catalog equal
\* to the catalog before the call.
C12_FailedLoadKeepsCatalog == lastLoad.failed => catalogo = lastLoad.before

\* a load failed at the second product and left the first one as the catalog
C12_Witness ==
  /\ lastLoad.failed
  /\ source = BrokenCatalog
  /\ Len(lastLoad.before) = 9
  /\ Len(catalogo) = 1

\* the lists a load that did not fail builds, and the list before any load
Snapshots ==
  {<<>>} \cup {loadCatalogResult(<<>>, file).catalogo :
                 file \in {f \in Sources : ~loadCatalogResult(<<>>, f).failed}}

\* C13: the catalog a searchProducts call reads is a complete snapshot (the
\* previous one or the newly loaded one), never a partially built list.
C13_ReadersSeeCompleteCatalog ==
  found.result.strategy # "none" => found.seen \in Snapshots

\* a search ran over the one product a failed load had pushed
C13_Witness ==
  /\ found.result.strategy = "search"
  /\ Len(found.seen) = 1
  /\ found.seen \notin Snapshots
  /\ lastLoad.failed

\* ------------------------------------------- properties of concurrent handoffs

\* the employees' counts before the first assignment of the run, and the cursor
\* initRouter derived from them
CountsAtStart ==
  [e \in EmployeeIds |->
     [employees[e] EXCEPT !.assignments_count = @ - RowsOf(e, 1, Len(assignments))]]
StartCursor == initRouterIndex(-1, CountsAtStart)

\* --------------------------------------------------- properties of restarts

\* C22: cursor recovery.  After initRouter ran at start-up with a non-empty
\* roster, the cursor is the index of an agent whose assignments_count is the
\* maximum over the roster, the highest such index when several agents tie;
\* with an empty roster the cursor is left as it was (-1 after the load).
C22_CursorRecovery ==
  LET roster == getActiveEmployees(employees)
      K == Len(roster)
      count(j) == employees[roster[j]].assignments_count
  IN  recovered.rows = Len(assignments)
        => IF K = 0 THEN lastAssignedIndex = -1
           ELSE /\ lastAssignedIndex \in 0..(K - 1)
                /\ \A j \in 1..K : count(j) <= count(lastAssignedIndex + 1)
                /\ \A j \in (lastAssignedIndex + 2)..K : count(j) < count(lastAssignedIndex + 1)

\* the bot started over counts 1, 1, 0: the cursor is on the second agent
C22_Witness ==
  /\ recovered.rows = 0
  /\ Len(assignments) = 0
  /\ getActiveEmployees(employees) = <<1, 2, 3>>
  /\ [e \in EmployeeIds |-> employees[e].assignments_count] = <<1, 1, 0>>
  /\ lastAssignedIndex = 1

\* C24: rotation continuity across a restart.  The roster is unchanged since
\* all counts were zero and only assignClient changed the counts: after a
\* restart the next new assignment goes to the agent that was due before the
\* restart, the one after the agent of the last new assignment.
C24_RotationContinuity ==
  LET roster == getActiveEmployees(employees)
      K == Len(roster)
      n == recovered.rows
      position(e) == CHOOSE j \in 1..K : roster[j] = e
  IN  (n >= 0 /\ K > 0 /\ \A e \in EmployeeIds : CountsAtStart[e].assignments_count = 0)
        => /\ n = Len(assignments) => nextAgent(lastAssignedIndex, employees) = recovered.next
           /\ n < Len(assignments) => assignments[n + 1].employee_id = recovered.next
           /\ (0 < n /\ n < Len(assignments))
                => position(assignments[n + 1].employee_id)
                     = (position(assignments[n].employee_id) % K) + 1

\* two assignments, a restart, a third assignment: it went to the third agent
C24_Witness ==
  /\ recovered = [rows |-> 2, next |-> 3]
  /\ Len(assignments) = 3
  /\ getActiveEmployees(employees) = <<1, 2, 3>>
  /\ <<assignments[1].employee_id, assignments[2].employee_id,
       assignments[3].employee_id>> = <<1, 2, 3>>
  /\ \A e \in EmployeeIds : CountsAtStart[e].assignments_count = 0

\* the handlers of client c that made the assignClient call of the handoff step
Escalated(c) == {m \in Handled : m.from = c /\ "assignClient" \in m.effects}

\* C14: two handlers of one client interleave and both reach the handoff step,
\* with somebody on the roster: one assignment row was created, by one of the
\* two; the cursor moved once from its start-up value; one employee's count was
\* incremented once; both handlers hold that same assignment.
C14_ConcurrentEscalation ==
  \A c \in Phones :
    (Cardinality(Escalated(c)) = 2 /\ getActiveEmployees(employees) # <<>>)
      => /\ Cardinality({i \in 1..Len(assignments) : assignments[i].client_phone = c}) = 1
         /\ Cardinality({m \in Escalated(c) : "createAssignment" \in m.effects}) = 1
         /\ \A m \in Escalated(c) :
              m.assignment # 0 /\ m.assignment = getActiveAssignment(assignments, c)
         /\ lastAssignedIndex = (StartCursor + 1) % Len(getActiveEmployees(employees))
         /\ \E e \in EmployeeIds :
              /\ employees[e].assignments_count = 1
              /\ assignments[getActiveAssignment(assignments, c)].employee_id = e
              /\ \A o \in EmployeeIds \ {e} : employees[o].assignments_count = 0

\* both handlers of client 1 are in flight, past the handoff step, with the
\* same assignment
C14_Witness ==
  /\ \A h \in 1..2 :
       /\ h \in InFlight
       /\ handlers[h].from = 1
       /\ handlers[h].path = "handoff"
       /\ "assignClient" \in handlers[h].effects
       /\ handlers[h].assignment = 1
  /\ Len(assignments) = 1
  /\ "createAssignment" \notin handlers[2].effects

unaccented(word) == removeAll(normalizeNFD(word), CombiningMarks)

\* the words of a message: lower case, punctuation taken as spaces
wordsOf(message) ==
  split(trim(collapseSpaces(replaceEach(toLowerCase(message), KeywordPunctuation, " "))),
        " ")

\* the message is made only of stop-words (as listed, or without their
\* accents), one-character tokens and punctuation
StopWordsOnly(message) ==
  LET words == wordsOf(message)
  IN  \A i \in 1..Len(words) :
        \/ Len(words[i]) <= 1
        \/ \E s \in STOP_WORDS : words[i] = s \/ words[i] = unaccented(s)

\* C16: stop-word exclusion.  For a message made only of stop-words (accented
\* or not), one-character tokens and punctuation, extractKeywords returns the
\* empty list.
C16_StopWordsExcluded ==
  (kw.pc # "idle" /\ kw.pc # "input" /\ StopWordsOnly(SearchText[kw.message]))
    => kw.keywords = <<>>

\* extractKeywords returned a stop-word: the entry written with an accent
C16_Witness ==
  /\ kw.pc = "extracted"
  /\ kw.message = "aqui'"
  /\ SearchText[kw.message] \in STOP_WORDS
  /\ kw.keywords = <<unaccented(SearchText[kw.message])>>

\* the elements of a list
elements(list) == {list[i] : i \in 1..Len(list)}

\* C17: idempotence.  extractKeywords applied to the space-joined output of
\* extractKeywords(x) yields the same keyword set as extractKeywords(x).
C17_Idempotent == kw.pc = "again" => elements(kw.again) = elements(kw.keywords)

\* the second extraction added the synonyms of the synonyms
C17_Witness ==
  /\ kw.pc = "again"
  /\ kw.message = "pistola"
  /\ Len(kw.keywords) = 5
  /\ Len(kw.again) = 9
  /\ elements(kw.keywords) \subseteq elements(kw.again)

\* --------------------------------------------------- properties of the search

\* keywords to add to a query: some match products, "glock" matches none
ExtraKeywords == {SearchText[k] : k \in {"negra", "pistola", "ekol", "mini", "glock"}}

\* C18: ranker monotonicity.  For every item of the catalog a search ran over
\* and the keyword list of that search, the score with one more keyword added
\* to the list is greater than or equal to the score without it.
C18_RankerMonotone ==
  \A i \in 1..Len(found.seen) :
    \A k \in ExtraKeywords :
      score(found.seen[i], Append(found.result.keywords, k))
        >= score(found.seen[i], found.result.keywords)

\* over the catalog of 9 products, one more keyword raised the score of the
\* first product and another one left it as it was
C18_Witness ==
  /\ found.result.strategy = "search"
  /\ Len(found.seen) = 9
  /\ found.result.keywords = <<SearchText["ekol"], SearchText["magnum"], SearchText["grande"],
                               SearchText["largo"], SearchText["potente"]>>
  /\ score(found.seen[1], Append(found.result.keywords, SearchText["negra"]))
       > score(found.seen[1], found.result.keywords)
  /\ score(found.seen[1], Append(found.result.keywords, SearchText["glock"]))
       = score(found.seen[1], found.result.keywords)

\* C19: for a query with keywords, searchProducts returns only items whose
\* score is > 0, by non-increasing score, items of equal score in catalog
\* order, and at most maxResults of them.
C19_RankedResults ==
  found.result.strategy = "search"
    => LET products == found.result.products
       IN  /\ found.result.keywords # <<>>
           /\ Len(products) <= found.maxResults
           /\ \A j \in 1..Len(products) :
                /\ products[j].index \in 1..Len(found.seen)
                /\ products[j]._score = score(found.seen[products[j].index], found.result.keywords)
                /\ products[j]._score > 0
           /\ \A j \in 1..(Len(products) - 1) :
                \/ products[j]._score > products[j + 1]._score
                \/ /\ products[j]._score = products[j + 1]._score
                   /\ products[j].index < products[j + 1].index

\* 'Pistola negra!' over the catalog of 9 products: 6 of the 9 matches came
\* back, products 1 and 8 tied at the top in catalog order, product 6 (catalog
\* position 6, score 22) ahead of product 3 (score 11)
C19_Witness ==
  /\ found.message = "Pistola negra!"
  /\ found.maxResults = DefaultMaxResults
  /\ Len(found.seen) = 9
  /\ [j \in 1..6 |-> found.result.products[j].index] = <<1, 8, 6, 3, 4, 5>>
  /\ [j \in 1..6 |-> found.result.products[j]._score] = <<23, 23, 22, 11, 11, 11>>

\* the catalog positions with a positive score for the keywords of the search
Matching == {i \in 1..Len(found.seen) : score(found.seen[i], found.result.keywords) > 0}

\* C20: for a 'search' result, totalFound is the number of catalog items with
\* score > 0, counted before the truncation: totalFound >= products.length and
\* products.length = min(maxResults, totalFound).
C20_TotalFound ==
  found.result.strategy = "search"
    => /\ found.result.totalFound = Cardinality(Matching)
       /\ found.result.totalFound >= Len(found.result.products)
       /\ Len(found.result.products)
            = (IF found.maxResults < found.result.totalFound
               THEN found.maxResults ELSE found.result.totalFound)

\* 8 products matched and the 6 best came back
C20_Witness ==
  /\ found.result.strategy = "search"
  /\ found.message = "Ekol Magnum"
  /\ found.maxResults = DefaultMaxResults
  /\ found.result.totalFound = 8
  /\ Cardinality(Matching) = 8
  /\ Len(found.result.products) = 6

\* C21: when extractKeywords returns no keyword, searchProducts returns
\* strategy 'highlights', totalFound 0, keywords [] and, for each of the brands
\* RETAY, EKOL, BLOW that has an available product, the first available product
\* of that brand in catalog order, and nothing else.
C21_Highlights ==
  LET products == found.result.products
      firstOf(marca) ==
        {i \in 1..Len(found.seen) :
           /\ found.seen[i].categoria = marca
           /\ found.seen[i].disponible
           /\ \A j \in 1..(i - 1) :
                ~(found.seen[j].categoria = marca /\ found.seen[j].disponible)}
  IN  /\ found.result.strategy = "highlights"
         <=> (found.result.strategy # "none" /\ extractKeywords(SearchText[found.message]) = <<>>)
      /\ found.result.strategy = "highlights"
           => /\ found.result.totalFound = 0
              /\ found.result.keywords = <<>>
              /\ \A j \in 1..Len(products) :
                   /\ products[j].index \in 1..Len(found.seen)
                   /\ found.seen[products[j].index].disponible
                   /\ products[j].index \in firstOf(found.seen[products[j].index].categoria)
                   /\ \E n \in 1..Len(Marcas) : found.seen[products[j].index].categoria = Marcas[n]
              /\ \A j, l \in 1..Len(products) :
                   j # l => found.seen[products[j].index].categoria
                              # found.seen[products[l].index].categoria
              /\ \A n \in 1..Len(Marcas) :
                   firstOf(Marcas[n]) # {}
                     => \E j \in 1..Len(products) : products[j].index \in firstOf(Marcas[n])

\* 'hola' over the catalog of 2 products: the first product of EKOL is not
\* available, the second one is the highlight
C21_Witness ==
  /\ found.message = "hola"
  /\ found.result.strategy = "highlights"
  /\ Len(found.seen) = 2
  /\ ~found.seen[1].disponible
  /\ found.result.products = <<[index |-> 2]>>


\* the handler of a text that is empty, or blank, has ended
EmptyTextEnded ==
  /\ done.pc = "done"
  /\ done.type = "chat"
  /\ messageBody[done.body] = <<>>

\* C23: a text message whose body is empty or only blanks is a no-op: no gate
\* of the classifier is evaluated for it (the handler ends on the empty-body
\* return, and the anti-loop tracker has not counted the message), no reply is
\* attempted, and no client row, stored message or assignment results from it.
C23_EmptyMessageNoOp ==
  EmptyTextEnded =>
    /\ done.path = "empty"
    /\ done.effects = {}
    /\ ~arrivals[done.from][done.seq].tracked

\* an empty text ended on the return of line 316
C23_Witness == EmptyTextEnded /\ done.path = "empty" /\ done.body = "   "


\* C25: a new (non-sticky) assignClient(c) call made with a non-empty roster
\* adds exactly one row, 'active', of client c and of the agent next in turn,
\* and returns it; it completes the active rows c had and leaves every other
\* row as it was; the count of that agent grows by exactly 1 and no other
\* employee changes.
C25_NewAssignmentEffects ==
  [][\A c \in ClientPhones :
       LET roster == getActiveEmployees(employees)
           selected == roster[((lastAssignedIndex + 1) % Len(roster)) + 1]
           n == Len(assignments)
       IN (assignClient(c) /\ getActiveAssignment(assignments, c) = 0 /\ Len(roster) > 0)
            => /\ Len(assignments') = n + 1
               /\ assignments'[n + 1] =
                    [client_phone |-> c, employee_id |-> selected, status |-> "active"]
               /\ returned'.result = n + 1
               /\ \A i \in 1..n :
                    assignments'[i] =
                      IF assignments[i].client_phone = c /\ assignments[i].status = "active"
                      THEN [assignments[i] EXCEPT !.status = "completed"]
                      ELSE assignments[i]
               /\ employees'[selected].assignments_count =
                    employees[selected].assignments_count + 1
               /\ \A e \in EmployeeIds \ {selected} : employees'[e] = employees[e]]_vars

\* the last call made a new row for a client that was assigned before, while
\* two employees were active
C25_Witness ==
  /\ returned.result # 0
  /\ returned.result = Len(assignments)
  /\ assignments[returned.result].client_phone = returned.client
  /\ \E i \in 1..(Len(assignments) - 1) :
       /\ assignments[i].client_phone = returned.client
       /\ assignments[i].status = "completed"
  /\ Len(getActiveEmployees(employees)) >= 2


\* the positions, in p's arrivals, of the messages that reached the anti-loop step
Stamped(p) == {i \in 1..Len(arrivals[p]) : arrivals[p][i].tracked}

\* the time of the last message of p that reached the anti-loop step
LastStamp(p) == arrivals[p][CHOOSE i \in Stamped(p) : \A j \in Stamped(p) : j <= i].t

\* C26: tracker pruning.  Once a message of sender p went through the anti-loop
\* step, and until the next one does, the tracker entry of p holds the timestamp
\* of that message, and every timestamp it holds is less than 5 minutes older
\* than that message.
C26_TrackerPruned ==
  \A p \in Phones :
    Stamped(p) # {} =>
      /\ \E k \in 1..Len(tracker[p]) : tracker[p][k] = LastStamp(p)
      /\ \A k \in 1..Len(tracker[p]) : LastStamp(p) - tracker[p][k] < WindowMs

\* the entry of client 1 lost the timestamps of its first messages and kept
\* several later ones
C26_Witness ==
  /\ Len(tracker[1]) >= 2
  /\ Cardinality(Stamped(1)) > Len(tracker[1])
  /\ tracker[1][1] < LastStamp(1)


\* an HTTP 4xx status other than 429
ClientError(status) == status \in 400..499 /\ status # 429

\* the handler is past getClaudeResponse
Answered(m) == m.pc \in {"replyAi", "done"}

\* C27: a failure with a 4xx status other than 429 is the last attempt of its
\* message and getClaudeResponse returns the apology; a failure with 429, 5xx or
\* no status is followed by another attempt unless it was the third, and the
\* third failure returns the apology; a successful attempt returns its reply
\* and is the last one.
C27_RetryByStatus ==
  \A m \in AiHandlers :
    /\ \A k \in 1..Len(m.statuses) :
         IF ClientError(m.statuses[k])
         THEN k = Len(m.statuses) /\ m.attempt = k /\ Answered(m) /\ m.response = "apology"
         ELSE IF k < MAX_RETRIES
         THEN m.attempt > k \/ (m.attempt = k /\ m.pc = "aiWait")
         ELSE m.attempt = k /\ Answered(m) /\ m.response = "apology"
    /\ m.response = "reply" => (Answered(m) /\ m.attempt = Len(m.statuses) + 1)
    /\ m.attempt <= MAX_RETRIES

\* a message was answered with the apology after a 429 and then a 404, and
\* before it one was answered at the third attempt
C27_Witness ==
  /\ done.pc = "done"
  /\ done.path = "ai"
  /\ done.statuses = <<429, 404>>
  /\ done.response = "apology"
  /\ Len(conversations[1]) = 4


\* the position of the first occurrence of word in list
firstIndex(list, word) ==
  CHOOSE i \in 1..Len(list) : list[i] = word /\ \A j \in 1..(i - 1) : list[j] # word

\* keywords is a list without duplicates: the tokens of words, each once, in
\* the order of their first occurrence, and after them synonym values of the
\* tokens, all of them
OriginalsThenSynonyms(keywords, words) ==
  LET n == Cardinality(elements(words))
  IN /\ \A i, j \in 1..Len(keywords) : keywords[i] = keywords[j] => i = j
     /\ n <= Len(keywords)
     /\ {keywords[k] : k \in 1..n} = elements(words)
     /\ \A a, b \in 1..n :
          a < b => firstIndex(words, keywords[a]) < firstIndex(words, keywords[b])
     /\ \A k \in (n + 1)..Len(keywords) :
          \E i \in 1..Len(words) : keywords[k] \in elements(synonymsOf(words[i]))
     /\ \A i \in 1..Len(words) : elements(synonymsOf(words[i])) \subseteq elements(keywords)

\* C28: for every message, extractKeywords returns a list without duplicates
\* that holds every token that passed the filter, in first-seen order, followed
\* by the synonym values of those tokens; no token is lost to the expansion.
C28_OriginalsThenSynonyms ==
  kw.pc \notin {"idle", "input"} =>
    /\ kw.pc # "threw"
    /\ OriginalsThenSynonyms(kw.keywords, keptWords(SearchText[kw.message]))

\* a list was returned in which a synonym of one token is another token, kept once
C28_Witness ==
  /\ kw.pc = "extracted"
  /\ kw.message = "pistola trauma'tica compacta"
  /\ Len(keptWords(SearchText[kw.message])) = 3
  /\ Len(kw.keywords) > 3
  /\ SearchText["traumatica"] \in elements(synonymsOf(SearchText["pistola"]))


\* the search of the scenario was made
ScenarioSearched ==
  found.message = "cuanto vale la retay negra" /\ found.result.strategy # "none"

\* C29: for the query 'cuanto vale la retay negra' the keywords include
\* 'retay', 'negra' and 'negro' and exclude 'cuanto', 'vale' and 'la', and a
\* product of the catalog titled 'RETAY G17 Negra' is returned with a score of
\* at least 10 + 10 + 5.
C29_ScoringScenario ==
  ScenarioSearched =>
    /\ {SearchText["retay"], SearchText["negra"], SearchText["negro"]}
         \subseteq elements(found.result.keywords)
    /\ elements(found.result.keywords)
         \cap {SearchText["cuanto"], SearchText["vale"], SearchText["la"]} = {}
    /\ \A i \in 1..Len(found.seen) :
         found.seen[i].titulo = "RETAY G17 Negra" =>
           \E k \in 1..Len(found.result.products) :
             /\ found.result.products[k].index = i
             /\ found.result.products[k]._score >= 10 + 10 + 5

\* the product came first, with the two title matches, the prefix bonus and
\* the two matches in its search text, ahead of an available product
C29_Witness ==
  /\ ScenarioSearched
  /\ Len(found.result.products) = 2
  /\ found.seen[found.result.products[1].index].titulo = "RETAY G17 Negra"
  /\ found.result.products[1]._score = 29
  /\ found.result.products[2]._score = 1


\* m is a command of an administrator: a text that starts with ! from an auditor
AdminCommand(m) ==
  m.type = "chat" /\ m.from \in auditors /\ startsWith(trim(Chars[m.body]), <<"!">>)

\* the messages of the staff that are not commands
StaffMessages == {m \in Handled : m.from \in StaffPhones /\ ~AdminCommand(m)}

\* C30: a message from a registered employee, active or not, or from an
\* auditor, that is not an admin ! command, gets no reply and makes no call
\* that writes; no employee or auditor number ever has a client row, a stored
\* conversation message or an assignment row as a client.
C30_StaffNotServed ==
  /\ \A m \in StaffMessages :
       /\ m.effects = {}
       /\ m.pc \in {"getChat", "done"}
  /\ \A p \in StaffPhones :
       /\ clients[p] = "none"
       /\ conversations[p] = <<>>
       /\ \A i \in 1..Len(assignments) : assignments[i].client_phone # p

\* an employee who is not active asked for a person and the handler ended on
\* the employee check, while a client's message was being handled
C30_Witness ==
  /\ done.pc = "done"
  /\ done.from = EmployeePhone(2)
  /\ ~employees[2].is_active
  /\ done.body = "Necesito atencio'n humana!"
  /\ done.path = "employee"
  /\ \E h \in InFlight : handlers[h].from = 1 /\ handlers[h].pc # "getChat"


\* C36: from counts zero and an empty assignments table, after any assignClient,
\* closeAssignment and resetClient calls, the assignments_count of each employee
\* is the number of assignment rows, active or completed, of that employee.
C36_CountsEqualRows ==
  \A e \in EmployeeIds :
    employees[e].assignments_count =
      Cardinality({i \in 1..Len(assignments) : assignments[i].employee_id = e})

\* an employee has two rows, one completed by a close or a reset and one active
C36_Witness ==
  \E e \in EmployeeIds :
    /\ employees[e].assignments_count = 2
    /\ \E i, j \in 1..Len(assignments) :
         /\ assignments[i].employee_id = e /\ assignments[i].status = "completed"
         /\ assignments[j].employee_id = e /\ assignments[j].status = "active"


\* C31: roster-change safety.  Whatever activations and deactivations came
\* between the calls, an assignClient call that makes a new row leaves the
\* cursor at an index of the roster of that moment, 0 <= index < length, and
\* the row goes to the employee at that index, who is active.
C31_RosterChangeSafety ==
  [][\A c \in ClientPhones :
       LET roster == getActiveEmployees(employees)
           n == Len(assignments)
       IN (assignClient(c) /\ Len(assignments') = n + 1)
            => /\ 0 <= lastAssignedIndex'
               /\ lastAssignedIndex' < Len(roster)
               /\ assignments'[n + 1].employee_id = roster[lastAssignedIndex' + 1]
               /\ employees[assignments'[n + 1].employee_id].is_active]_vars

\* the cursor went back to the start of a roster that had lost its last
\* employee, who had been assigned a client before
C31_Witness ==
  /\ lastAssignedIndex = 0
  /\ Len(assignments) >= 3
  /\ returned.result = Len(assignments)
  /\ assignments[Len(assignments)].employee_id = 1
  /\ assignments[Len(assignments) - 1].employee_id = 2
  /\ ~employees[3].is_active
  /\ employees[3].assignments_count >= 1
  /\ Len(getActiveEmployees(employees)) = 2

\* a handoff for client c has started and has not ended: its handler awaits
\* the reply to the client, the number lookup or the send to the employee
Suspended(c) ==
  \E h \in DOMAIN handlers :
    /\ handlers[h].pc # "idle"
    /\ handlers[h].from = c
    /\ handlers[h].path = "handoff"

\* C32: in every state where no handoff handler of client c is suspended
\* mid-way, the status of c is 'assigned' only if c has an active assignment,
\* also when an administrator's !close or !reset for c ran while a handoff of
\* c was awaiting the send of its reply.
C32_StatusConsistency ==
  \A c \in ClientPhones :
    ~Suspended(c) =>
      (clients[c] = "assigned" => getActiveAssignment(assignments, c) # 0)

\* the handoff of client 1 has ended, the status is 'assigned' and the only
\* row of the client was completed by the command of the auditor
C32_Witness ==
  /\ ~Suspended(1)
  /\ clients[1] = "assigned"
  /\ getActiveAssignment(assignments, 1) = 0
  /\ \E i \in 1..Len(assignments) :
       assignments[i].client_phone = 1 /\ assignments[i].status = "completed"
  /\ done.pc = "done" /\ done.from = 1 /\ "setAssigned" \in done.effects

\* handleHandoff has created row k for its client and awaits the reply to the client
Created(k) ==
  \E h \in DOMAIN handlers :
    /\ handlers[h].pc = "replyHandoff"
    /\ "createAssignment" \in handlers[h].effects
    /\ handlers[h].assignment = k

\* a handoff of row k is in the try block of lines 676-702: it looks the
\* employee's number up or sends the notification
Notifying(k) ==
  \E h \in DOMAIN handlers :
    /\ handlers[h].pc \in {"getNumberId", "sendNotification", "sendFallback"}
    /\ handlers[h].assignment = k

\* C33: every assignment that assignClient creates during a handoff is
\* eventually followed by an attempt to notify the assigned employee, also when
\* the send of the handoff reply to the client fails.
C33_NotificationAttempted ==
  \A k \in 1..MaxNotifyMsgs : Created(k) ~> Notifying(k)

\* a handoff that created an assignment has ended at the catch of line 349:
\* the reply to the client was rejected and no notification was attempted
C33_Witness ==
  /\ done.pc = "done"
  /\ done.path = "handoff"
  /\ done.failed
  /\ "createAssignment" \in done.effects
  /\ "notify" \notin done.effects
  /\ assignments[done.assignment].status = "active"
  /\ clients[done.from] = "new"

\* the keyword is in one of the text fields of the product that the scoring
\* of lines 152-161 reads
matchesKeyword(product, keyword) ==
  \/ includes(product._tituloLower, keyword)
  \/ includes(product._descLower, keyword)
  \/ includes(toLowerCase(SearchText[product.categoria]), keyword)
  \/ includes(toLowerCase(SearchText[product.marca]), keyword)
  \/ includes(toLowerCase(SearchText[product.modelo]), keyword)
  \/ includes(product._searchText, keyword)

\* C34: every item returned in a result of strategy 'search' matches at least
\* one keyword of the query in its title, description, category, brand, model
\* or search text; an item that matches no keyword is never returned.
C34_ResultsMatchKeyword ==
  found.result.strategy = "search" =>
    \A k \in 1..Len(found.result.products) :
      \E j \in 1..Len(found.result.keywords) :
        matchesKeyword(found.seen[found.result.products[k].index], found.result.keywords[j])

\* a search returned an available product that matches none of the keywords:
\* its score is the 1 of line 163
C34_Witness ==
  /\ found.result.strategy = "search"
  /\ \E k \in 1..Len(found.result.products) :
       LET item == found.seen[found.result.products[k].index]
       IN /\ found.result.products[k]._score = 1
          /\ item.disponible
          /\ \A j \in 1..Len(found.result.keywords) :
               ~matchesKeyword(item, found.result.keywords[j])

\* C35: loop suppression is not permanent.  When the last message of a sender
\* was loop-suppressed and the sender then sent nothing for a full 5-minute
\* window, the next message is not loop-suppressed; and while the sender keeps
\* writing, the suppressed messages count like the others: the tracker entry
\* holds one timestamp for every message of the last 5 minutes that reached the
\* anti-loop step, suppressed or not, and the message is suppressed exactly
\* when they are more than 10.
C35_SuppressionEnds ==
  [][\A h \in 1..MaxInFlight :
       (/\ FilterStep(h)
        /\ done.pc = "done"
        /\ done.path = "loop"
        /\ done.from = handlers[h].from)
       => LET sender == handlers[h].from
              suppressed == handlers'[h].pc = "idle" /\ done'.path = "loop"
              counted == {i \in 1..Len(arrivals'[sender]) :
                            /\ arrivals'[sender][i].tracked
                            /\ now - arrivals'[sender][i].t < WindowMs}
          IN /\ now - LastStamp(sender) >= WindowMs => ~suppressed
             /\ ~isBlocked(sender, handlers[h].name, handlers[h].body)
                  => /\ Len(tracker'[sender]) = Cardinality(counted)
                     /\ suppressed <=> Cardinality(counted) > LoopThreshold]_vars

\* the 11th message of client 1 was suppressed, the client was silent for 5
\* minutes, and the next message went on to handleClientMessage
C35_Witness ==
  /\ done.pc = "done"
  /\ done.path = "loop"
  /\ done.from = 1
  /\ handlers[1].pc = "getContact"
  /\ handlers[1].from = 1
  /\ handlers[1].seq = done.seq + 1
  /\ arrivals[1][handlers[1].seq].t - arrivals[1][done.seq].t >= WindowMs
  /\ tracker[1] = <<arrivals[1][handlers[1].seq].t>>

====
